---- MODULE Spec2Model ----
(***************************************************************************)
(* Model of the live-sound agent runtime: the approval queue               *)
(* (include/approval/ApprovalQueue.hpp), the action validator              *)
(* (include/agent/ActionValidator.hpp) and the agent threads that submit,  *)
(* validate and execute mix actions (src/agent/SoundEngineerAgent.cpp,     *)
(* src/approval/ApprovalUI.cpp).                                           *)
(*                                                                         *)
(* Float parameters are fixed-point integers in thousandths (0.15 = 150).  *)
(* Time is the steady clock in whole milliseconds, the unit in which the   *)
(* queue compares elapsed time with a timeout.                             *)
(***************************************************************************)
EXTENDS Integers, Sequences, FiniteSets, TLC

\* ------------------------------------------------------------------------
\* Bounds of the model
\* ------------------------------------------------------------------------
MaxActions == 1
MaxSubmits == 2
MaxTicks == 1
ChannelCount == 1
BusCount == 1
MaxRecv == 1
MaxKeepalives == 1
MaxEntries == 2
MaxRecords == 4
RingCapacity == 2
MaxSamples == 4
MaxCalls == 2
MaxDspTicks == 3
MaxRaceWrites == 12
MaxClips == 3
MaxNames == 4

\* ------------------------------------------------------------------------
\* Program constants
\* ------------------------------------------------------------------------
Scale == 1000
maxFaderDeltaNorm == 150
maxEqBoostDB == 3000
maxEqCutDB == -12000
maxCompThresholdDB == -50000
minCompRatio == 1000
maxCompRatio == 20000
maxHpfHz == 400000
minHpfHz == 20000
DefaultFader == 750
PopTimeoutMs == 200
TestTimeoutMs == 100
DirectThreshold == 20
RampSteps == 10
RampSleepMs == 20
DspIntervalMs == 50
MeterRenewMs == 9000
KeepaliveX32Ms == 8000
KeepaliveWingMs == 8000
KeepaliveAvantisMs == 5000
ActiveMax == 10

Modes == {"ApproveAll", "AutoUrgent", "AutoAll", "DenyAll"}
Urgencies == {"Immediate", "Fast", "Normal", "Low"}
Workers == {"dsp", "llm", "exec", "chat"}

NoAction == [id |-> 0, type |-> "NoAction", channel |-> 0, value |-> 0,
             value2 |-> 0, value3 |-> 0, urgency |-> "Normal", how |-> "none"]

NoResult == [valid |-> FALSE, clamped |-> NoAction, warning |-> FALSE]

\* Actions the LLM decision loop may propose: a fader move the validator
\* clamps, and one on a channel the console does not have.
LLMActions ==
    { [id |-> 0, type |-> "SetFader", channel |-> 1, value |-> 1000,
       value2 |-> 0, value3 |-> 0, urgency |-> "Normal", how |-> "none"],
      [id |-> 0, type |-> "SetFader", channel |-> ChannelCount + 2, value |-> 500,
       value2 |-> 0, value3 |-> 0, urgency |-> "Fast", how |-> "none"] }

\* Actions a chat-driven LLM call may propose.
ChatActions ==
    { [id |-> 0, type |-> "SetHighPass", channel |-> 1, value |-> 500000,
       value2 |-> 0, value3 |-> 0, urgency |-> "Low", how |-> "none"] }

\* Actions submitted to a queue on its own: one of each urgency.
QueueActions ==
    { [id |-> 0, type |-> "SetFader", channel |-> 1, value |-> 500,
       value2 |-> 0, value3 |-> 0, urgency |-> u, how |-> "none"] : u \in Urgencies }

NoCall == [action |-> NoAction, ret |-> FALSE]

VARIABLES
    mode,           \* ApprovalQueue::mode_
    pending,        \* ApprovalQueue::pending_
    approved,       \* ApprovalQueue::approved_
    rejected,       \* ApprovalQueue::rejected_
    notified,       \* the waiter in popApproved was woken by cv_.notify_all()
    deadline,       \* end of the wait_for in popApproved
    now,            \* steady_clock, ms
    ticks,          \* number of clock advances so far
    fader,          \* ConsoleModel channel faders
    running,        \* SoundEngineerAgent::running_
    agentState,     \* "running", "joining" (inside stop()), "stopped", "destroyed"
    pc,             \* position of each worker thread
    act,            \* each worker's local MixAction
    vr,             \* each worker's local ValidationResult
    uiPc,           \* UI thread: "idle", "approve", "reject", "done"
    uiSnap,         \* ids of the UI handler's pending() snapshot
    selectedIndex,  \* ApprovalUI::run selectedIndex
    nextId,         \* number of actions submitted so far (history)
    engOrder,       \* ids approved by the engineer and not yet returned by
                    \* popApproved, in the order of approval (history)
    passed,         \* clamped outputs of validate() calls that were valid (history)
    executed,       \* actions handed to executor_.execute (history)
    lastCall,       \* the latest direct submit call and what it returned (history)
    meters,         \* ConsoleModel: rmsDB / peakDB of each channel
    spectral,       \* ConsoleModel: spectral data of each channel
    busFader,       \* ConsoleModel: fader of each bus
    profiles,       \* DynamicChannelMap: role of each channel
    thrown,         \* the latest model / map call raised std::out_of_range
    writes,         \* adapter_.setChannelParam(Fader) calls of the executor,
                    \* in order, each with the clock at the call
    ramp,           \* ActionExecutor::executeFader in progress
    rejections,     \* SessionMemory: ids of the actions recorded as rejected
    stopLog,        \* steps stop() has taken, in order (history)
    connected,      \* each adapter's connected_
    recvLoop,       \* each adapter's receive loop: "running" or "ended"
    connCalls,      \* onConnectionChange(false) calls made by each adapter
    received,       \* datagrams / frames each adapter has parsed
    console,        \* the adapter that was connected, "none" before connect()
    lastKeepalive,  \* lastKeepalive_
    lastMeterRenew, \* lastMeterRenew_
    metering,       \* metering_
    entries,        \* SessionMemory::entries_
    inserted,       \* number of entries ever pushed to the session memory
    instructed,     \* the entries pushed by recordInstruction
    buf,            \* RingBuffer::buf_
    writePos,       \* RingBuffer::writePos_
    readPos,        \* RingBuffer::readPos_
    producer,       \* the audio callback inside write: position, toWrite, result
    consumer,       \* the DSP thread inside read: position, toRead, result
    readOut,        \* every sample read() has copied out, in order
    roundTrip,      \* a MixAction and what fromJson made of its toJson
    engine,         \* LLMDecisionEngine: counters, last response and result
    capture,        \* PortAudioCapture: stream state and whether callback_ is set
    learned,        \* PreferenceLearner: ids of the actions recordRejection ran for
    rampB,          \* executeFader of a second thread in progress; <<>> before it
    sync,           \* ConsoleDiscovery::performFullSync; <<>> before it is called
    review          \* the detached LLM review task of discovery; <<>> before it

queueVars == <<mode, pending, approved, rejected, notified, deadline>>
modelVars == <<meters, spectral, busFader, profiles, thrown>>
executorVars == <<writes, ramp>>
memoryVars == <<rejections>>
stopVars == <<stopLog>>
adapterVars == <<connected, recvLoop, connCalls, received>>
keepaliveVars == <<console, lastKeepalive, lastMeterRenew, metering>>
sessionVars == <<entries, inserted, instructed>>
ringVars == <<buf, writePos, readPos, producer, consumer, readOut>>
llmVars == <<roundTrip, engine>>
captureVars == <<capture>>
lastVars == <<learned, rampB, sync, review>>
laterVars == <<keepaliveVars, sessionVars, ringVars, llmVars, captureVars,
              lastVars>>
restVars == <<fader, modelVars, executorVars, memoryVars, stopVars, adapterVars,
              laterVars>>
envVars == <<now, ticks, restVars>>
agentVars == <<running, agentState, pc, act, vr>>
uiVars == <<uiPc, uiSnap, selectedIndex>>
histVars == <<nextId, engOrder, passed, executed, lastCall>>
vars == <<queueVars, envVars, agentVars, uiVars, histVars>>

\* ------------------------------------------------------------------------
\* Helpers
\* ------------------------------------------------------------------------
Clamp(x, lo, hi) == IF x < lo THEN lo ELSE IF x > hi THEN hi ELSE x

Abs(x) == IF x < 0 THEN -x ELSE x

RemoveAt(s, i) == [j \in 1..(Len(s) - 1) |-> IF j < i THEN s[j] ELSE s[j + 1]]

Ids(s) == [j \in 1..Len(s) |-> s[j].action.id]

Range(s) == {s[j] : j \in 1..Len(s)}

\* ------------------------------------------------------------------------
\* ActionValidator
\* ------------------------------------------------------------------------
\* validateFader without the step limit.
validateFaderNoLimit(action, faders) ==
    IF action.channel < 1 \/ action.channel > ChannelCount
    THEN [valid |-> FALSE, clamped |-> action, warning |-> TRUE]
    ELSE [valid |-> TRUE,
          clamped |-> [action EXCEPT !.value = Clamp(action.value, 0, Scale)],
          warning |-> FALSE]

validateFader(action, faders) ==
    IF action.channel < 1 \/ action.channel > ChannelCount
    THEN [valid |-> FALSE, clamped |-> action, warning |-> TRUE]
    ELSE LET current == faders[action.channel]
             target == Clamp(action.value, 0, Scale)
             delta == target - current
         IN IF Abs(delta) > maxFaderDeltaNorm
            THEN [valid |-> TRUE,
                  clamped |-> [action EXCEPT !.value =
                      IF delta > 0 THEN current + maxFaderDeltaNorm
                                   ELSE current - maxFaderDeltaNorm],
                  warning |-> TRUE]
            ELSE [valid |-> TRUE,
                  clamped |-> [action EXCEPT !.value = target],
                  warning |-> FALSE]

validateEq(action) ==
    LET gain == IF action.value2 > maxEqBoostDB THEN maxEqBoostDB
                ELSE IF action.value2 < maxEqCutDB THEN maxEqCutDB
                ELSE action.value2
    IN [valid |-> TRUE,
        clamped |-> [action EXCEPT !.value = Clamp(action.value, 20000, 20000000),
                                   !.value2 = gain,
                                   !.value3 = Clamp(action.value3, 100, 20000)],
        warning |-> (action.value2 > maxEqBoostDB \/ action.value2 < maxEqCutDB)]

validateComp(action) ==
    [valid |-> TRUE,
     clamped |-> [action EXCEPT
                    !.value = Clamp(action.value, maxCompThresholdDB, 0),
                    !.value2 = Clamp(action.value2, minCompRatio, maxCompRatio)],
     warning |-> FALSE]

validateHpf(action) ==
    LET freq == Clamp(action.value, minHpfHz, maxHpfHz)
    IN [valid |-> TRUE,
        clamped |-> [action EXCEPT !.value = freq],
        warning |-> (freq # action.value)]

validateSend(action) ==
    IF action.channel < 1 \/ action.channel > ChannelCount
    THEN [valid |-> FALSE, clamped |-> action, warning |-> TRUE]
    ELSE [valid |-> TRUE,
          clamped |-> [action EXCEPT !.value = Clamp(action.value, 0, Scale)],
          warning |-> FALSE]

validate(action, faders) ==
    CASE action.type = "SetFader" -> validateFader(action, faders)
      [] action.type = "SetEqBand" -> validateEq(action)
      [] action.type = "SetCompressor" -> validateComp(action)
      [] action.type = "SetHighPass" -> validateHpf(action)
      [] action.type = "SetSendLevel" -> validateSend(action)
      [] OTHER -> [valid |-> TRUE, clamped |-> action, warning |-> FALSE]

\* ------------------------------------------------------------------------
\* ApprovalQueue
\* ------------------------------------------------------------------------
timeoutForUrgency(u) ==
    CASE u = "Immediate" -> 500
      [] u = "Fast" -> 2000
      [] u = "Normal" -> 10000
      [] u = "Low" -> 30000
      [] OTHER -> 10000

QueuedAction(a, t, timeout, ap, rj, ex) ==
    [action |-> a, queued |-> t, timeoutMs |-> timeout,
     approved |-> ap, rejected |-> rj, expired |-> ex]


\* The AutoUrgent rule covering Immediate only.
IsImmediateOnly(u) == u = "Immediate"

\* submit: the AutoUrgent rule.
IsAutoUrgent(u) == u = "Immediate" \/ u = "Fast"

\* submit without the AutoAll rule.
SubmitReturnsNoAutoAll(m, u) ==
    IF m = "DenyAll" THEN FALSE
    ELSE IF m = "AutoUrgent" /\ IsAutoUrgent(u) THEN TRUE
    ELSE FALSE

\* submit: the value returned for an action of urgency u in mode m.
SubmitReturns(m, u) ==
    IF m = "AutoAll" THEN TRUE
    ELSE IF m = "DenyAll" THEN FALSE
    ELSE IF m = "AutoUrgent" /\ IsAutoUrgent(u) THEN TRUE
    ELSE FALSE

\* A DenyAll submit that records nothing.
DenyRecordNone(rej, a, t) == rej

\* submit: the rejection a DenyAll submit records.
DenyRecord(rej, a, t) == Append(rej, QueuedAction(a, t, 0, FALSE, TRUE, FALSE))

\* submit: the entry queued for manual approval.
QueueEntry(pend, a, t) ==
    Append(pend, QueuedAction(a, t, timeoutForUrgency(a.urgency),
                              FALSE, FALSE, FALSE))

\* cv_.notify_all(): wakes the thread waiting in popApproved, if any.
NotifyAll == IF pc["exec"] = "waiting" THEN TRUE ELSE notified

submit(a, ret) ==
    /\ ret = SubmitReturns(mode, a.urgency)
    /\ IF mode = "AutoAll"
       THEN UNCHANGED <<pending, rejected, notified>>
       ELSE IF mode = "DenyAll"
       THEN /\ rejected' = DenyRecord(rejected, a, now)
            /\ UNCHANGED <<pending, notified>>
       ELSE IF mode = "AutoUrgent" /\ IsAutoUrgent(a.urgency)
       THEN UNCHANGED <<pending, rejected, notified>>
       ELSE /\ pending' = QueueEntry(pending, a, now)
            /\ notified' = NotifyAll
            /\ UNCHANGED rejected
    /\ nextId' = a.id
    /\ UNCHANGED <<mode, approved, deadline>>

\* approved_.push_front in place of push_back.
ApprovedPushFront(appr, q) == <<q>> \o appr

\* approve / approveAll / expireOldLocked: approved_.push_back.
ApprovedPush(appr, q) == Append(appr, q)

\* The field `how` of an action is history: who moved it to approved_.
MarkApproved(q) == [q EXCEPT !.approved = TRUE, !.action.how = "engineer"]

MarkRejected(q) == [q EXCEPT !.rejected = TRUE]

\* reject without the erase.
RejectKeep(pend, i) == pend

\* reject: pending_.erase(pending_.begin() + index), index 1-based here.
RejectErase(pend, i) == RemoveAt(pend, i)

\* approve(index): index is 0-based as in the code.
approve(index) ==
    IF index >= Len(pending)
    THEN UNCHANGED <<queueVars, engOrder>>
    ELSE /\ approved' = ApprovedPush(approved, MarkApproved(pending[index + 1]))
         /\ pending' = RemoveAt(pending, index + 1)
         /\ notified' = NotifyAll
         /\ engOrder' = Append(engOrder, pending[index + 1].action.id)
         /\ UNCHANGED <<mode, rejected, deadline>>

reject(index) ==
    IF index >= Len(pending)
    THEN UNCHANGED queueVars
    ELSE /\ rejected' = Append(rejected, MarkRejected(pending[index + 1]))
         /\ pending' = RejectErase(pending, index + 1)
         /\ UNCHANGED <<mode, approved, notified, deadline>>

RECURSIVE PushAll(_, _)
PushAll(appr, pend) ==
    IF pend = <<>> THEN appr
    ELSE PushAll(ApprovedPush(appr, MarkApproved(Head(pend))), Tail(pend))

\* Ids of a sequence of entries in submission order (ids grow with submission).
RECURSIVE SortedIds(_)
SortedIds(S) ==
    IF S = {} THEN <<>>
    ELSE LET m == CHOOSE x \in S : \A y \in S : x <= y
         IN <<m>> \o SortedIds(S \ {m})

approveAll ==
    /\ approved' = PushAll(approved, pending)
    /\ pending' = <<>>
    /\ notified' = NotifyAll
    /\ engOrder' = engOrder \o SortedIds(Range(Ids(pending)))
    /\ UNCHANGED <<mode, rejected, deadline>>

rejectAll ==
    /\ rejected' = rejected \o [j \in 1..Len(pending) |-> MarkRejected(pending[j])]
    /\ pending' = <<>>
    /\ UNCHANGED <<mode, approved, notified, deadline>>

\* expireOldLocked: elapsed whole milliseconds since the entry was queued.
ElapsedMs(q, t) == t - q.queued

\* The sweep comparing with >= instead of >.
IsExpiredAtTimeout(q, t) == ElapsedMs(q, t) >= q.timeoutMs

IsExpired(q, t) == ElapsedMs(q, t) > q.timeoutMs

\* The sweep forgetting `it->approved = true`.
ExpireMarkOnly(q) == [q EXCEPT !.expired = TRUE, !.action.how = "timeout"]

ExpireMark(q) == [q EXCEPT !.approved = TRUE, !.expired = TRUE,
                           !.action.how = "timeout"]

RECURSIVE ExpireInto(_, _, _)
ExpireInto(appr, pend, t) ==
    IF pend = <<>> THEN appr
    ELSE IF IsExpired(Head(pend), t)
         THEN ExpireInto(ApprovedPush(appr, ExpireMark(Head(pend))), Tail(pend), t)
         ELSE ExpireInto(appr, Tail(pend), t)

KeepPending(pend, t) == SelectSeq(pend, LAMBDA q : ~IsExpired(q, t))

\* History: the id popApproved returns leaves engOrder when it heads it.
Returned(order, id) ==
    IF order # <<>> /\ Head(order) = id THEN Tail(order) ELSE order

\* popApproved: approved_.front() / pop_front().
PopFront(appr) == Tail(appr)

\* popApproved up to the wait: sweep, then return the front or start waiting.
popApprovedBegin(timeoutMs, gotPc) ==
    LET swept == ExpireInto(approved, pending, now)
    IN /\ pending' = KeepPending(pending, now)
       /\ IF swept # <<>>
          THEN /\ approved' = PopFront(swept)
               /\ act' = [act EXCEPT !["exec"] = Head(swept).action]
               /\ pc' = [pc EXCEPT !["exec"] = gotPc]
               /\ engOrder' = Returned(engOrder, Head(swept).action.id)
               /\ UNCHANGED <<deadline, notified>>
          ELSE /\ approved' = swept
               /\ pc' = [pc EXCEPT !["exec"] = "waiting"]
               /\ deadline' = now + timeoutMs
               /\ notified' = FALSE
               /\ UNCHANGED <<act, engOrder>>
       /\ UNCHANGED <<mode, rejected>>

\* popApproved after cv_.wait_for returns (notified, or the timeout elapsed).
popApprovedWake(gotPc) ==
    /\ notified \/ now >= deadline
    /\ notified' = FALSE
    /\ deadline' = 0
    /\ IF approved # <<>>
       THEN /\ approved' = PopFront(approved)
            /\ act' = [act EXCEPT !["exec"] = Head(approved).action]
            /\ pc' = [pc EXCEPT !["exec"] = gotPc]
            /\ engOrder' = Returned(engOrder, Head(approved).action.id)
       ELSE /\ pc' = [pc EXCEPT !["exec"] = "loop"]
            /\ UNCHANGED <<approved, act, engOrder>>
    /\ UNCHANGED <<mode, pending, rejected>>

\* ------------------------------------------------------------------------
\* SoundEngineerAgent threads
\* ------------------------------------------------------------------------
Alive == agentState \in {"running", "joining"}

\* The step after submit: validate when auto-approved, else back to `back`.
AfterSubmit(w, a, ret, back) ==
    IF ret
    THEN /\ act' = [act EXCEPT ![w] = a]
         /\ pc' = [pc EXCEPT ![w] = "validate"]
    ELSE /\ pc' = [pc EXCEPT ![w] = back]
         /\ UNCHANGED act

\* The execution thread without its validity check.
ExecGuardSkipped(r) == TRUE

\* `if (vr.valid)` on each path.
ExecGuard(r) == r.valid

LlmGuard(r) == r.valid

DspGuard(r) == r.valid

ChatGuard(r) == r.valid

\* The threads whose invalid branch calls memory_.recordRejection: only
\* executionLoop has that branch; llmLoop logs a warning, dspLoop and the
\* chat task have no else branch.
RecordsRejection(w) == w = "exec"

\* auto vr = validator_.validate(action, model_), then the guard.
Validate(w, guard, back) ==
    /\ Alive
    /\ pc[w] = "validate"
    /\ LET r == validate(act[w], fader)
       IN /\ passed' = IF r.valid THEN passed \cup {r.clamped} ELSE passed
          /\ rejections' = IF ~r.valid /\ RecordsRejection(w)
                            THEN rejections \cup {act[w].id}
                            ELSE rejections
          /\ IF guard
             THEN /\ vr' = [vr EXCEPT ![w] = r]
                  /\ pc' = [pc EXCEPT ![w] = "execute"]
                  /\ UNCHANGED act
             ELSE /\ vr' = [vr EXCEPT ![w] = NoResult]
                  /\ act' = [act EXCEPT ![w] = NoAction]
                  /\ pc' = [pc EXCEPT ![w] = back]
    /\ UNCHANGED <<queueVars, laterVars, now, ticks, fader, modelVars, executorVars,
                   stopVars, adapterVars, uiVars, running, agentState,
                   nextId, engOrder, executed, lastCall>>

\* executor_.execute(vr.clamped)
Execute(w, back) ==
    /\ Alive
    /\ pc[w] = "execute"
    /\ executed' = executed \cup {vr[w].clamped}
    /\ pc' = [pc EXCEPT ![w] = back]
    /\ act' = [act EXCEPT ![w] = NoAction]
    /\ vr' = [vr EXCEPT ![w] = NoResult]
    /\ UNCHANGED <<queueVars, envVars, uiVars, running, agentState,
                   nextId, engOrder, passed, lastCall>>

\* A worker's submit call.
Submit(w, a, back) ==
    /\ \E ret \in BOOLEAN : submit(a, ret) /\ AfterSubmit(w, a, ret, back)
    /\ UNCHANGED <<envVars, uiVars, running, agentState, vr,
                   engOrder, passed, executed, lastCall>>

\* --- DSP thread ---------------------------------------------------------
\* The clipping fix built by dspLoop for channel ch.
ClipFixNoCut(ch) ==
    [id |-> nextId + 1, type |-> "SetFader", channel |-> ch,
     value |-> fader[ch], value2 |-> 0, value3 |-> 0,
     urgency |-> "Immediate", how |-> "none"]

\* fix.type = SetFader; fix.channel = analysis.clippingChannel;
\* fix.urgency = Immediate; fix.value = snap.fader * 0.9f
ClipFix(ch) ==
    [id |-> nextId + 1, type |-> "SetFader", channel |-> ch,
     value |-> (fader[ch] * 9) \div 10, value2 |-> 0, value3 |-> 0,
     urgency |-> "Immediate", how |-> "none"]

\* A dspLoop iteration whose analysis reports clipping, while fewer than max
\* actions have been submitted: the fix is built and submitted.
DspClipUpTo(max) ==
    /\ Alive /\ running
    /\ pc["dsp"] = "loop"
    /\ nextId < max
    /\ \E ch \in 1..ChannelCount : Submit("dsp", ClipFix(ch), "loop")

DspClip == DspClipUpTo(MaxActions)

DspValidate == Validate("dsp", DspGuard(validate(act["dsp"], fader)), "loop")

DspExecute == Execute("dsp", "loop")

\* --- LLM thread ---------------------------------------------------------
\* One iteration of llmLoop: decideMixActions returns an action, which is
\* submitted.
LlmSubmit ==
    /\ Alive /\ running
    /\ pc["llm"] = "loop"
    /\ nextId < MaxActions
    /\ \E a \in LLMActions :
          Submit("llm", [a EXCEPT !.id = nextId + 1], "loop")

LlmValidate == Validate("llm", LlmGuard(validate(act["llm"], fader)), "loop")

LlmExecute == Execute("llm", "loop")

\* --- Execution thread ---------------------------------------------------
ExecPop ==
    /\ Alive /\ running
    /\ pc["exec"] = "loop"
    /\ popApprovedBegin(PopTimeoutMs, "validate")
    /\ UNCHANGED <<envVars, uiVars, running, agentState, vr, nextId, passed, executed, lastCall>>

ExecWake ==
    /\ Alive
    /\ pc["exec"] = "waiting"
    /\ popApprovedWake("validate")
    /\ UNCHANGED <<envVars, uiVars, running, agentState, vr, nextId, passed, executed, lastCall>>

ExecValidate == Validate("exec", ExecGuard(validate(act["exec"], fader)), "loop")

ExecExecute == Execute("exec", "loop")

\* --- Chat task (detached) -----------------------------------------------
\* onChatMessage: the detached task asks the LLM and submits its action.
ChatSubmit ==
    /\ Alive
    /\ uiPc = "idle"
    /\ pc["chat"] = "idle"
    /\ nextId < MaxActions
    /\ \E a \in ChatActions :
          Submit("chat", [a EXCEPT !.id = nextId + 1], "idle")

ChatValidate == Validate("chat", ChatGuard(validate(act["chat"], fader)), "idle")

ChatExecute == Execute("chat", "idle")

\* --- UI thread: the approval-mode key handler ----------------------------
UiStep ==
    /\ Alive
    /\ UNCHANGED <<envVars, agentVars, nextId, passed, executed, lastCall>>

UiUp ==
    /\ UiStep
    /\ uiPc = "idle"
    /\ selectedIndex' = IF selectedIndex > 0 THEN selectedIndex - 1
                        ELSE selectedIndex
    /\ UNCHANGED <<queueVars, uiPc, uiSnap, engOrder>>

UiDown ==
    /\ UiStep
    /\ uiPc = "idle"
    /\ selectedIndex' = IF selectedIndex < Len(pending) - 1
                        THEN selectedIndex + 1 ELSE selectedIndex
    /\ UNCHANGED <<queueVars, uiPc, uiSnap, engOrder>>

\* auto pending = queue_.pending() at the top of the handler, for the
\* approve and reject keys, which use the snapshot afterwards.
UiKey ==
    /\ UiStep
    /\ uiPc = "idle"
    /\ pending # <<>>
    /\ uiSnap' = Ids(pending)
    /\ \E k \in {"approve", "reject"} : uiPc' = k
    /\ UNCHANGED <<queueVars, selectedIndex, engOrder>>

\* selectedIndex after approve / reject.
AfterKey == IF selectedIndex >= Len(uiSnap) - 1 /\ selectedIndex > 0
            THEN selectedIndex - 1 ELSE selectedIndex

UiApprove ==
    /\ UiStep
    /\ uiPc = "approve"
    /\ approve(selectedIndex)
    /\ selectedIndex' = AfterKey
    /\ uiPc' = "idle"
    /\ uiSnap' = <<>>

UiReject ==
    /\ UiStep
    /\ uiPc = "reject"
    /\ reject(selectedIndex)
    /\ selectedIndex' = AfterKey
    /\ uiPc' = "idle"
    /\ uiSnap' = <<>>
    /\ UNCHANGED <<engOrder>>

UiApproveAll ==
    /\ UiStep
    /\ uiPc = "idle"
    /\ pending # <<>>
    /\ approveAll
    /\ selectedIndex' = 0
    /\ UNCHANGED <<uiPc, uiSnap>>

UiRejectAll ==
    /\ UiStep
    /\ uiPc = "idle"
    /\ pending # <<>>
    /\ rejectAll
    /\ selectedIndex' = 0
    /\ UNCHANGED <<uiPc, uiSnap, engOrder>>

\* 'q' / Escape: the UI loop exits and uiLoop flips running_.
UiQuit ==
    /\ Alive
    /\ uiPc = "idle"
    /\ uiPc' = "done"
    /\ running' = FALSE
    /\ UNCHANGED <<queueVars, envVars, histVars, agentState, pc, act, vr,
                   uiSnap, selectedIndex>>

\* --- Lifecycle ----------------------------------------------------------
\* stop(): flips running_ and starts joining the threads.
Stop ==
    /\ agentState = "running"
    /\ running
    /\ running' = FALSE
    /\ agentState' = "joining"
    /\ stopLog' = stopLog \o <<"flip", "stopUI", "unsubscribe">>
    /\ UNCHANGED <<queueVars, laterVars, now, ticks, fader, modelVars, executorVars,
                   memoryVars, adapterVars, uiVars, histVars, pc, act, vr>>

\* stop(): the joins return once each loop has observed running_ = false
\* at the head of an iteration and the UI loop has exited.
StopJoined ==
    /\ agentState = "joining"
    /\ pc["dsp"] = "loop" /\ pc["llm"] = "loop" /\ pc["exec"] = "loop"
    /\ uiPc = "done"
    /\ pc' = [w \in Workers |-> IF w = "chat" THEN pc[w] ELSE "done"]
    /\ agentState' = "stopped"
    /\ stopLog' = stopLog \o <<"join", "persist">>
    /\ UNCHANGED <<queueVars, laterVars, now, ticks, fader, modelVars, executorVars,
                   memoryVars, adapterVars, uiVars, histVars, running, act, vr>>

\* main: isRunning() is false after the UI quit; the agent is destroyed and
\* its destructor's stop() returns at once because running_ is already false.
AgentDestroy ==
    /\ agentState = "running"
    /\ ~running
    /\ agentState' = "destroyed"
    /\ UNCHANGED <<queueVars, envVars, uiVars, histVars, running, pc, act, vr>>

\* --- Failures inside an iteration -----------------------------------------
\* An exception is raised while thread w handles an action (by the validator,
\* the executor, the console model or session memory).
Raised(w) ==
    /\ Alive
    /\ pc[w] \in {"validate", "execute"}

\* llmLoop: the body is inside try { ... } catch (const std::exception&),
\* which logs the failure; the loop goes on with its next iteration.
LlmFail ==
    /\ Raised("llm")
    /\ pc' = [pc EXCEPT !["llm"] = "loop"]
    /\ act' = [act EXCEPT !["llm"] = NoAction]
    /\ vr' = [vr EXCEPT !["llm"] = NoResult]
    /\ UNCHANGED <<queueVars, envVars, uiVars, histVars, running, agentState>>

\* dspLoop and executionLoop have no try block: the exception leaves the
\* thread's function and std::terminate ends the process.
Escapes(w) ==
    /\ Raised(w)
    /\ agentState' = "aborted"
    /\ UNCHANGED <<queueVars, envVars, uiVars, histVars, running, pc, act, vr>>

DspFail == Escapes("dsp")

ExecFail == Escapes("exec")

\* --- Rejection learning ---------------------------------------------------
\* The hook start() assigns to approvalQueue_.onRejected:
\* preferences_.recordRejection(action, action.roleName).  ApprovalQueue
\* declares no such member and none of its operations calls it, so no
\* action of the model uses this definition.
onRejected(a) == learned' = learned \cup {a.id}

\* --- Console connection ---------------------------------------------------
\* The adapter the agent was built with.
AgentAdapter == "X32"

\* The adapter's receive thread meets a socket error: it clears connected_
\* and calls the agent's onConnectionChange(false) sink, which sets the UI
\* status line to DISCONNECTED and refreshes the connection status.  The
\* sink touches no flag that the executor or the loops read.
ConsoleLost ==
    /\ Alive
    /\ recvLoop[AgentAdapter] = "running"
    /\ connected' = [connected EXCEPT ![AgentAdapter] = FALSE]
    /\ connCalls' = [connCalls EXCEPT ![AgentAdapter] = connCalls[AgentAdapter] + 1]
    /\ recvLoop' = [recvLoop EXCEPT ![AgentAdapter] = "error"]
    /\ UNCHANGED <<queueVars, laterVars, now, ticks, fader, modelVars, executorVars,
                   memoryVars, stopVars, received, agentVars, uiVars, histVars>>

\* --- Environment --------------------------------------------------------
\* Instants at which the passing of time can change what the program does:
\* the end of the wait in popApproved, and for each pending entry the last
\* instant within its timeout and the first instant past it.
Instants ==
    (IF pc["exec"] = "waiting" THEN {deadline} ELSE {})
    \cup {pending[j].queued + pending[j].timeoutMs : j \in 1..Len(pending)}
    \cup {pending[j].queued + pending[j].timeoutMs + 1 : j \in 1..Len(pending)}

\* The steady clock advances to a later instant.
Tick ==
    /\ Alive
    /\ ticks < MaxTicks
    /\ \E t \in Instants : t > now /\ now' = t
    /\ ticks' = ticks + 1
    /\ UNCHANGED <<queueVars, agentVars, uiVars, histVars, restVars>>

\* ------------------------------------------------------------------------
\* No executeFader call made yet.
\* A thread that is not inside a ring buffer call; ret is what its last
\* call returned.
Idle == [pc |-> "idle", n |-> 0, ret |-> 0]

\* No toJson / fromJson round trip has run.
NoTrip == [done |-> FALSE]

NoCapture == [state |-> "open", callback |-> FALSE]

\* int totalCalls_ = 0; int failedCalls_ = 0; nothing asked yet.
NewEngine == [totalCalls |-> 0, failedCalls |-> 0, response |-> "none",
              actions |-> <<>>]

NoRamp == [call |-> 0, active |-> FALSE, channel |-> 0, current |-> 0,
           target |-> 0, val |-> 0, stepSize |-> 0, i |-> 0]

Adapters == {"X32", "Wing", "Avantis"}

\* ConsoleModel::init and DynamicChannelMap::resize, and the rest of the
\* program before anything has run.
InitRest ==
    /\ meters = [ch \in 1..ChannelCount |-> [rmsDB |-> -96000, peakDB |-> -96000]]
    /\ spectral = [ch \in 1..ChannelCount |-> [bass |-> -96000, mid |-> -96000]]
    /\ busFader = [b \in 1..BusCount |-> DefaultFader]
    /\ profiles = [ch \in 1..ChannelCount |-> "Unknown"]
    /\ thrown = FALSE
    /\ writes = <<>> /\ ramp = NoRamp
    /\ rejections = {}
    /\ stopLog = <<>>
    /\ connected = [a \in Adapters |-> TRUE]
    /\ recvLoop = [a \in Adapters |-> "running"]
    /\ connCalls = [a \in Adapters |-> 0]
    /\ received = [a \in Adapters |-> 0]
    /\ console = "none" /\ lastKeepalive = 0 /\ lastMeterRenew = 0
    /\ metering = FALSE
    /\ entries = <<>> /\ inserted = 0 /\ instructed = {}
    /\ buf = [i \in 0..(RingCapacity - 1) |-> 0]
    /\ writePos = 0 /\ readPos = 0
    /\ producer = Idle /\ consumer = Idle
    /\ readOut = <<>>
    /\ roundTrip = NoTrip
    /\ engine = NewEngine
    /\ capture = NoCapture
    /\ learned = {}
    /\ rampB = <<>> /\ sync = <<>> /\ review = <<>>

\* Everything but the faders of the console model.
InitCore ==
    /\ mode \in Modes
    /\ pending = <<>> /\ approved = <<>> /\ rejected = <<>>
    /\ notified = FALSE /\ deadline = 0
    /\ now = 0 /\ ticks = 0
    /\ running = TRUE /\ agentState = "running"
    /\ pc = [w \in Workers |-> IF w = "chat" THEN "idle" ELSE "loop"]
    /\ act = [w \in Workers |-> NoAction]
    /\ vr = [w \in Workers |-> NoResult]
    /\ uiPc = "idle" /\ uiSnap = <<>> /\ selectedIndex = 0
    /\ nextId = 0 /\ engOrder = <<>>
    /\ passed = {} /\ executed = {}
    /\ lastCall = NoCall
    /\ InitRest

Init ==
    /\ InitCore
    /\ fader = [ch \in 1..ChannelCount |-> DefaultFader]

Next ==
    \/ DspClip \/ DspValidate \/ DspExecute
    \/ LlmSubmit \/ LlmValidate \/ LlmExecute
    \/ ExecPop \/ ExecWake \/ ExecValidate \/ ExecExecute
    \/ ChatSubmit \/ ChatValidate \/ ChatExecute
    \/ UiUp \/ UiDown \/ UiKey \/ UiApprove \/ UiReject
    \/ UiApproveAll \/ UiRejectAll \/ UiQuit
    \/ Stop \/ StopJoined \/ AgentDestroy
    \/ LlmFail \/ DspFail \/ ExecFail
    \/ ConsoleLost
    \/ Tick

Spec == Init /\ [][Next]_vars

\* A channel that keeps clipping: the DSP thread finds clipping on tick
\* after tick while the execution thread drains the queue and time passes.
DspClipAgain == DspClipUpTo(MaxClips)

ClipNext ==
    \/ DspClipAgain \/ DspValidate \/ DspExecute
    \/ ExecPop \/ ExecWake \/ ExecValidate \/ ExecExecute
    \/ Tick

SpecClip == Init /\ [][ClipNext]_vars

\* ------------------------------------------------------------------------
\* The approval queue on its own, under any sequence of calls of its public
\* operations by concurrent callers.  Each operation runs under mtx_, so it
\* is one step; popApproved releases the lock while it waits, so it is two.
\* ------------------------------------------------------------------------
QueueStep == UNCHANGED <<restVars, running, agentState, vr, uiVars, passed, executed>>

\* A call other than submit / popApproved: no submit result and no popped
\* action are left over from it.
NoOut ==
    /\ lastCall' = NoCall
    /\ act' = [act EXCEPT !["exec"] = NoAction]

\* submit called with one of the actions of S.
SubmitCall(S) ==
    /\ QueueStep
    /\ nextId < MaxSubmits
    /\ \E a \in S, ret \in BOOLEAN :
          /\ submit([a EXCEPT !.id = nextId + 1], ret)
          /\ lastCall' = [action |-> [a EXCEPT !.id = nextId + 1],
                          ret |-> ret]
    /\ act' = [act EXCEPT !["exec"] = NoAction]
    /\ UNCHANGED <<now, ticks, pc, engOrder>>

QSubmit == SubmitCall(QueueActions)

QApprove ==
    /\ QueueStep
    /\ \E index \in 0..Len(pending) : approve(index)
    /\ NoOut
    /\ UNCHANGED <<now, ticks, pc, nextId>>

QReject ==
    /\ QueueStep
    /\ \E index \in 0..Len(pending) : reject(index)
    /\ NoOut
    /\ UNCHANGED <<now, ticks, pc, nextId, engOrder>>

QApproveAll ==
    /\ QueueStep
    /\ approveAll
    /\ NoOut
    /\ UNCHANGED <<now, ticks, pc, nextId>>

QRejectAll ==
    /\ QueueStep
    /\ rejectAll
    /\ NoOut
    /\ UNCHANGED <<now, ticks, pc, nextId, engOrder>>

QPop ==
    /\ QueueStep
    /\ pc["exec"] = "loop"
    /\ popApprovedBegin(TestTimeoutMs, "loop")
    /\ lastCall' = NoCall
    /\ UNCHANGED <<now, ticks, nextId>>

QPopWake ==
    /\ QueueStep
    /\ pc["exec"] = "waiting"
    /\ popApprovedWake("loop")
    /\ lastCall' = NoCall
    /\ UNCHANGED <<now, ticks, nextId>>

\* setMode(m)
QSetMode ==
    /\ QueueStep
    /\ \E m \in Modes : m # mode /\ mode' = m
    /\ NoOut
    /\ UNCHANGED <<pending, approved, rejected, notified, deadline, now, ticks,
                   pc, nextId, engOrder>>

\* The clock advances while the queue is used on its own.
QTick ==
    /\ QueueStep
    /\ ticks < MaxTicks
    /\ \E t \in Instants : t > now /\ now' = t
    /\ ticks' = ticks + 1
    /\ NoOut
    /\ UNCHANGED <<queueVars, pc, nextId, engOrder>>

\* Every operation, with the mode free to change and the clock standing still.
QueueNext ==
    \/ QSubmit \/ QApprove \/ QReject \/ QApproveAll \/ QRejectAll
    \/ QPop \/ QPopWake \/ QSetMode

SpecQueue == Init /\ [][QueueNext]_vars

\* Submission, approval and popApproved in the mode the queue was built
\* with, as time passes.
TimedNext ==
    \/ QSubmit \/ QApprove \/ QApproveAll
    \/ QPop \/ QPopWake \/ QTick

SpecTimed == Init /\ [][TimedNext]_vars

\* The same with rejection, for actions of the two urgencies that
\* auto_urgent approves at once and of one that it queues.
FlagActions == {a \in QueueActions : a.urgency \in {"Immediate", "Fast", "Normal"}}

FSubmit == SubmitCall(FlagActions)

FlagsNext ==
    \/ FSubmit \/ QApprove \/ QReject \/ QApproveAll \/ QRejectAll
    \/ QPop \/ QPopWake \/ QTick

SpecFlags == Init /\ [][FlagsNext]_vars

\* The UI's approval-mode key handler running against the queue while other
\* threads submit and the execution thread's popApproved sweeps, as time
\* passes.
UiNext ==
    \/ FSubmit
    \/ UiUp \/ UiDown \/ UiKey \/ UiApprove \/ UiReject
    \/ QPop \/ QPopWake \/ QTick

SpecUi == Init /\ [][UiNext]_vars

\* Submission and popApproved with the mode switched while entries wait, as
\* time passes.
ModesNext ==
    \/ FSubmit \/ QSetMode
    \/ QPop \/ QPopWake \/ QTick

SpecModes == Init /\ [][ModesNext]_vars

\* ------------------------------------------------------------------------
\* ActionExecutor::executeFader on its own: one call, the model's faders
\* fixed at the values the console last reported.
\* ------------------------------------------------------------------------
\* Fader values the console model may hold, and targets of fader actions.
RampFaders == {DefaultFader, 500}

RampTargets == {760, 770, 900, 495}

\* std::abs(delta) <= 0.02f in place of <.
IsDirectInclusive(delta) == Abs(delta) <= DirectThreshold

\* std::abs(delta) < 0.02f
IsDirect(delta) == Abs(delta) < DirectThreshold

\* float stepSize = delta / steps, rounded towards zero in fixed point.
StepSize(delta) ==
    IF delta >= 0 THEN delta \div RampSteps ELSE -((-delta) \div RampSteps)

\* adapter_.setChannelParam(channel, ChannelParam::Fader, value)
FaderWrite(ws, c, ch, v, t) ==
    Append(ws, [call |-> c, channel |-> ch, value |-> v, at |-> t])

RampStep == UNCHANGED <<queueVars, laterVars, fader, modelVars, memoryVars,
                        stopVars, adapterVars, agentVars, uiVars, histVars>>

\* executeFader up to the ramp: the direct write, or the ramp set up.
ExecuteFaderBegin ==
    /\ RampStep
    /\ ramp.call = 0
    /\ \E ch \in 1..ChannelCount, target \in RampTargets :
          LET current == fader[ch]
              delta == target - current
              call == [NoRamp EXCEPT !.call = ramp.call + 1, !.channel = ch,
                                     !.current = current, !.target = target]
          IN IF IsDirect(delta)
             THEN /\ writes' = FaderWrite(writes, call.call, ch, target, now)
                  /\ ramp' = call
             ELSE /\ ramp' = [call EXCEPT !.active = TRUE, !.val = current,
                                          !.stepSize = StepSize(delta)]
                  /\ UNCHANGED writes
    /\ UNCHANGED <<now, ticks>>

\* One iteration of the ramp loop: the write, then sleep_for(20 ms), which
\* blocks for at least that long: the wake-up may come a millisecond late,
\* which counts as a clock advance.
ExecuteFaderStep ==
    /\ RampStep
    /\ ramp.active
    /\ ramp.i < RampSteps
    /\ LET val == ramp.val + ramp.stepSize
       IN /\ writes' = FaderWrite(writes, ramp.call, ramp.channel, val, now)
          /\ ramp' = [ramp EXCEPT !.val = val, !.i = ramp.i + 1]
    /\ \E over \in {0, 1} :
          /\ ticks + over <= MaxTicks
          /\ now' = now + RampSleepMs + over
          /\ ticks' = ticks + over

\* The final set to the exact target.
ExecuteFaderEnd ==
    /\ RampStep
    /\ ramp.active
    /\ ramp.i = RampSteps
    /\ writes' = FaderWrite(writes, ramp.call, ramp.channel, ramp.target, now)
    /\ ramp' = [ramp EXCEPT !.active = FALSE]
    /\ UNCHANGED <<now, ticks>>

InitRamp ==
    /\ InitCore
    /\ fader \in [1..ChannelCount -> RampFaders]

RampNext == ExecuteFaderBegin \/ ExecuteFaderStep \/ ExecuteFaderEnd

SpecRamp == InitRamp /\ [][RampNext]_vars

\* ------------------------------------------------------------------------
\* Two executeFader calls at once.  executor_.execute is called by the
\* execution thread, by llmLoop and dspLoop for auto-approved actions and by
\* the chat task, each on its own thread and with no lock around the call:
\* ramp is the call of one thread (call 1), rampB the call of another
\* (call 2, the DSP thread's), and both write through the same adapter.  The writes are
\* followed up to MaxRaceWrites of them.
\* ------------------------------------------------------------------------
RaceStep == UNCHANGED <<queueVars, keepaliveVars, sessionVars, ringVars, llmVars,
                        captureVars, learned, sync, review, fader, modelVars,
                        memoryVars, stopVars, adapterVars, agentVars, uiVars,
                        histVars>>

\* The second thread's executeFader up to the ramp: dspLoop executing its
\* clipping fix for a channel.
OtherFaderBegin ==
    /\ RaceStep
    /\ Len(writes) < MaxRaceWrites
    /\ rampB = <<>>
    /\ \E ch \in 1..ChannelCount :
          LET current == fader[ch]
              target == ClipFix(ch).value
              delta == target - current
              call == [NoRamp EXCEPT !.call = 2, !.channel = ch,
                                     !.current = current, !.target = target]
          IN IF IsDirect(delta)
             THEN /\ writes' = FaderWrite(writes, 2, ch, target, now)
                  /\ rampB' = <<call>>
             ELSE /\ rampB' = <<[call EXCEPT !.active = TRUE, !.val = current,
                                             !.stepSize = StepSize(delta)]>>
                  /\ UNCHANGED writes
    /\ UNCHANGED <<ramp, now, ticks>>

\* One iteration of the second thread's ramp loop; its sleep_for runs
\* alongside the other thread's.
OtherFaderStep ==
    /\ RaceStep
    /\ Len(writes) < MaxRaceWrites
    /\ rampB # <<>>
    /\ rampB[1].active
    /\ rampB[1].i < RampSteps
    /\ LET val == rampB[1].val + rampB[1].stepSize
       IN /\ writes' = FaderWrite(writes, 2, rampB[1].channel, val, now)
          /\ rampB' = <<[rampB[1] EXCEPT !.val = val, !.i = rampB[1].i + 1]>>
    /\ UNCHANGED <<ramp, now, ticks>>

\* The second thread's final set to the exact target.
OtherFaderEnd ==
    /\ RaceStep
    /\ Len(writes) < MaxRaceWrites
    /\ rampB # <<>>
    /\ rampB[1].active
    /\ rampB[1].i = RampSteps
    /\ writes' = FaderWrite(writes, 2, rampB[1].channel, rampB[1].target, now)
    /\ rampB' = <<[rampB[1] EXCEPT !.active = FALSE]>>
    /\ UNCHANGED <<ramp, now, ticks>>

\* The steps of the first thread's call while the second thread is there.
FirstFaderBegin ==
    ExecuteFaderBegin /\ Len(writes) < MaxRaceWrites /\ UNCHANGED rampB

FirstFaderStep ==
    ExecuteFaderStep /\ Len(writes) < MaxRaceWrites /\ UNCHANGED rampB

FirstFaderEnd ==
    ExecuteFaderEnd /\ Len(writes) < MaxRaceWrites /\ UNCHANGED rampB

RaceNext ==
    \/ FirstFaderBegin \/ FirstFaderStep \/ FirstFaderEnd
    \/ OtherFaderBegin \/ OtherFaderStep \/ OtherFaderEnd

\* The mode in which every thread executes what it submits.
InitRace ==
    /\ InitRamp
    /\ mode = "AutoAll"

SpecRace == InitRace /\ [][RaceNext]_vars

\* ------------------------------------------------------------------------
\* ActionValidator::validate on its own: one call, over a console model
\* whose faders hold any of a few values.
\* ------------------------------------------------------------------------
ValidatorFaders == {DefaultFader, 500, 950}

\* Channel indices: 0, the valid ones, and one and two past the last.
ValidatorChannels == 0..(ChannelCount + 2)

Action(t, ch, v, v2, v3) ==
    [id |-> 0, type |-> t, channel |-> ch, value |-> v, value2 |-> v2,
     value3 |-> v3, urgency |-> "Normal", how |-> "none"]

\* Actions of every validated kind, with values inside and outside each
\* limit.
ValidatorInputs ==
    {Action("SetFader", ch, v, 0, 0) :
        ch \in ValidatorChannels, v \in {-100, 0, 500, 800, 1000, 1200}}
    \cup {Action("SetEqBand", ch, v, v2, v3) :
        ch \in ValidatorChannels, v \in {10000, 1000000, 25000000},
        v2 \in {-15000, 0, 5000}, v3 \in {50, 1000, 25000}}
    \cup {Action("SetCompressor", ch, v, v2, 0) :
        ch \in ValidatorChannels, v \in {-60000, -20000, 5000},
        v2 \in {500, 4000, 25000}}
    \cup {Action("SetHighPass", ch, v, 0, 0) :
        ch \in ValidatorChannels, v \in {10000, 100000, 500000}}
    \cup {Action("SetSendLevel", ch, v, 0, 0) :
        ch \in ValidatorChannels, v \in {-100, 500, 1200}}
    \cup {Action("MuteChannel", ch, 0, 0, 0) : ch \in ValidatorChannels}

\* auto result = validator.validate(action, model)
ValidateCall ==
    /\ act["exec"] = NoAction
    /\ \E a \in ValidatorInputs :
          /\ act' = [act EXCEPT !["exec"] = a]
          /\ vr' = [vr EXCEPT !["exec"] = validate(a, fader)]
    /\ UNCHANGED <<queueVars, envVars, uiVars, histVars, running, agentState, pc>>

InitValidate ==
    /\ InitCore
    /\ fader \in [1..ChannelCount -> ValidatorFaders]

ValidateNext == ValidateCall

SpecValidate == InitValidate /\ [][ValidateNext]_vars

\* ------------------------------------------------------------------------
\* The console model and the channel map on their own, under any sequence of
\* calls with in-range and out-of-range indices.  Each call runs under the
\* object's mutex, so it is one step.  thrown tells whether the last call
\* left by an exception.
\* ------------------------------------------------------------------------
ModelIndexes == 0..(ChannelCount + 1)

BusIndexes == 0..(BusCount + 1)

FaderValues == {DefaultFader, 500}

MeterValues == { [rmsDB |-> -96000, peakDB |-> -96000],
                 [rmsDB |-> -6000, peakDB |-> -3000] }

SpectralValues == { [bass |-> -96000, mid |-> -96000],
                    [bass |-> -20000, mid |-> -30000] }

Roles == {"Unknown", "Kick"}

ModelStep ==
    UNCHANGED <<queueVars, laterVars, now, ticks, executorVars, memoryVars, stopVars,
                adapterVars, agentVars, uiVars, histVars>>

\* `if (index < 1 || index > size) return;` in the mutators.
InRange(i, size) == i >= 1 /\ i <= size

\* ConsoleModel::applyUpdate: a fader update for a channel or a bus.
applyUpdate(target, index, v) ==
    /\ ModelStep
    /\ thrown' = FALSE
    /\ IF target = "Channel"
       THEN /\ fader' = IF InRange(index, ChannelCount)
                         THEN [fader EXCEPT ![index] = v] ELSE fader
            /\ UNCHANGED busFader
       ELSE /\ busFader' = IF InRange(index, BusCount)
                            THEN [busFader EXCEPT ![index] = v] ELSE busFader
            /\ UNCHANGED fader
    /\ UNCHANGED <<meters, spectral, profiles>>

updateMeter(ch, m) ==
    /\ ModelStep
    /\ thrown' = FALSE
    /\ meters' = IF InRange(ch, ChannelCount)
                  THEN [meters EXCEPT ![ch] = m] ELSE meters
    /\ UNCHANGED <<fader, busFader, spectral, profiles>>

updateSpectral(ch, data) ==
    /\ ModelStep
    /\ thrown' = FALSE
    /\ spectral' = IF InRange(ch, ChannelCount)
                    THEN [spectral EXCEPT ![ch] = data] ELSE spectral
    /\ UNCHANGED <<fader, busFader, meters, profiles>>

\* DynamicChannelMap::updateProfile
updateProfile(index, role) ==
    /\ ModelStep
    /\ thrown' = FALSE
    /\ profiles' = IF InRange(index, ChannelCount)
                    THEN [profiles EXCEPT ![index] = role] ELSE profiles
    /\ UNCHANGED <<fader, busFader, meters, spectral>>

\* std::vector::at(i - 1): returns the element, or throws
\* std::out_of_range when i - 1 is not an index of the vector.
At(i, size) ==
    /\ ModelStep
    /\ thrown' = ~InRange(i, size)
    /\ UNCHANGED <<fader, busFader, meters, spectral, profiles>>

\* ConsoleModel::channel
channel(ch) == At(ch, ChannelCount)

\* ConsoleModel::bus
bus(b) == At(b, BusCount)

\* DynamicChannelMap::getProfile
getProfile(ch) == At(ch, ChannelCount)

ApplyUpdateCall ==
    \E t \in {"Channel", "Bus"}, i \in ModelIndexes \cup BusIndexes, v \in FaderValues :
        applyUpdate(t, i, v)

UpdateMeterCall == \E ch \in ModelIndexes, m \in MeterValues : updateMeter(ch, m)

UpdateSpectralCall ==
    \E ch \in ModelIndexes, data \in SpectralValues : updateSpectral(ch, data)

UpdateProfileCall == \E i \in ModelIndexes, r \in Roles : updateProfile(i, r)

ChannelCall == \E ch \in ModelIndexes : channel(ch)

BusCall == \E b \in BusIndexes : bus(b)

GetProfileCall == \E ch \in ModelIndexes : getProfile(ch)

InitModel ==
    /\ InitCore
    /\ fader = [ch \in 1..ChannelCount |-> DefaultFader]

ModelNext ==
    \/ ApplyUpdateCall \/ UpdateMeterCall \/ UpdateSpectralCall
    \/ UpdateProfileCall
    \/ ChannelCall \/ BusCall \/ GetProfileCall

SpecModel == InitModel /\ [][ModelNext]_vars

\* ------------------------------------------------------------------------
\* Validation, then execution, with the console reporting fader moves in
\* between: executionLoop validates the popped action against the model and
\* hands vr.clamped to the executor, which reads the model again, while the
\* adapter's receive thread applies parameter updates to the model.
\* ------------------------------------------------------------------------
\* auto er = executor_.execute(vr.clamped) for a fader action, up to the
\* ramp: executeFader reads the channel's fader from the model.
ExecuteValidated ==
    /\ RampStep
    /\ ramp.call = 0
    /\ vr["exec"].valid
    /\ vr["exec"].clamped.type = "SetFader"
    /\ LET ch == vr["exec"].clamped.channel
           target == vr["exec"].clamped.value
           current == fader[ch]
           delta == target - current
           call == [NoRamp EXCEPT !.call = 1, !.channel = ch,
                                  !.current = current, !.target = target]
       IN IF IsDirect(delta)
          THEN /\ writes' = FaderWrite(writes, call.call, ch, target, now)
               /\ ramp' = call
          ELSE /\ ramp' = [call EXCEPT !.active = TRUE, !.val = current,
                                       !.stepSize = StepSize(delta)]
               /\ UNCHANGED writes
    /\ UNCHANGED <<now, ticks>>

\* A fader move reported by the console before the executor has read the
\* model.
FaderMoved ==
    /\ ramp.call = 0
    /\ \E ch \in 1..ChannelCount, v \in FaderValues : applyUpdate("Channel", ch, v)

StaleNext ==
    \/ ValidateCall
    \/ FaderMoved
    \/ ExecuteValidated
    \/ ExecuteFaderStep
    \/ ExecuteFaderEnd

SpecStale == InitValidate /\ [][StaleNext]_vars

\* ------------------------------------------------------------------------
\* ConsoleDiscovery::performFullSync: the calling thread installs a counting
\* callback, asks for the dump and waits on the future of syncComplete_,
\* while the adapter's receive thread delivers parameter updates through
\* adapter_.onParameterUpdate.  sync is <<>> until the call starts and then
\* holds one record: hooked (the counting callback is installed), synced
\* (syncedChannels_), promise (syncComplete_), wait (the caller's position)
\* and raised (an exception left the callback on the receive thread).
\* ------------------------------------------------------------------------
DiscoveryStep ==
    UNCHANGED <<queueVars, keepaliveVars, sessionVars, ringVars, llmVars,
                captureVars, learned, rampB, now, ticks, meters, spectral,
                busFader, thrown, executorVars, memoryVars, stopVars,
                adapterVars, agentVars, uiVars, histVars>>

SyncStep == DiscoveryStep /\ UNCHANGED review

\* The agent's own callback for a Name update of channel ch, which both
\* callbacks run: onParameterUpdate re-runs the name classifier, which gives
\* the new name the role r, and stores the profile (manuallyOverridden is
\* never set).
Reclassified(ch, r) == [profiles EXCEPT ![ch] = r]

\* int expected = caps.channelCount + caps.busCount;
Expected == ChannelCount + BusCount

\* performFullSync up to the wait: syncedChannels_ = 0, the callback is
\* replaced, requestFullSync, get_future.
SyncBegin ==
    /\ SyncStep
    /\ sync = <<>>
    /\ sync' = <<[hooked |-> TRUE, synced |-> 0, promise |-> "unset",
                  wait |-> "waiting", raised |-> FALSE]>>
    /\ UNCHANGED <<fader, profiles>>

\* promise::set_value on a promise that already holds a value throws
\* std::future_error; nothing on the receive thread catches it.
SetValue(s) ==
    IF s.promise = "unset" THEN [s EXCEPT !.promise = "set"]
    ELSE [s EXCEPT !.raised = TRUE]

\* The counting callback, for a Name update: ++syncedChannels_, and
\* set_value once completed >= expected.
CountName(s) ==
    LET completed == s.synced + 1
        counted == [s EXCEPT !.synced = completed]
    IN IF completed >= Expected THEN SetValue(counted) ELSE counted

\* The receive thread delivers a Name update, of a channel or of a bus.
NameUpdate ==
    /\ SyncStep
    /\ sync # <<>>
    /\ ~sync[1].raised
    /\ sync[1].synced < MaxNames
    /\ sync' = IF sync[1].hooked THEN <<CountName(sync[1])>> ELSE sync
    /\ \/ \E ch \in 1..ChannelCount, r \in Roles :
             profiles' = Reclassified(ch, r)
       \/ UNCHANGED profiles
    /\ UNCHANGED fader

\* The receive thread delivers a fader update: model_.applyUpdate(u) runs
\* under either callback and the count is left alone.
FaderUpdate ==
    /\ SyncStep
    /\ sync # <<>>
    /\ ~sync[1].raised
    /\ \E ch \in 1..ChannelCount, v \in FaderValues :
          fader' = [fader EXCEPT ![ch] = v]
    /\ UNCHANGED <<sync, profiles>>

\* future.wait_for returns ready; the original callback is restored and
\* performFullSync returns true.
SyncReady ==
    /\ SyncStep
    /\ sync # <<>>
    /\ sync[1].wait = "waiting"
    /\ sync[1].promise = "set"
    /\ sync' = <<[sync[1] EXCEPT !.wait = "complete", !.hooked = FALSE]>>
    /\ UNCHANGED <<fader, profiles>>

\* future.wait_for returns timeout: the promise was not set within
\* timeoutMs; the original callback is restored and performFullSync
\* returns false.
SyncTimeout ==
    /\ SyncStep
    /\ sync # <<>>
    /\ sync[1].wait = "waiting"
    /\ sync[1].promise = "unset"
    /\ sync' = <<[sync[1] EXCEPT !.wait = "timeout", !.hooked = FALSE]>>
    /\ UNCHANGED <<fader, profiles>>

SyncNext ==
    \/ SyncBegin
    \/ NameUpdate
    \/ FaderUpdate
    \/ SyncReady
    \/ SyncTimeout

SpecSync == Init /\ [][SyncNext]_vars

\* ------------------------------------------------------------------------
\* DiscoveryOrchestrator::run after the sync: the local pass stores its
\* profiles in the channel map and hands a copy to a detached thread, which
\* asks the LLM to review them and stores what comes back.  The
\* orchestrator is a local variable of SoundEngineerAgent::start; the
\* receive thread goes on delivering Name updates.  review is <<>> until
\* the task is spawned and then holds one record: pc (the task's position),
\* profiles (the task's copy), alive (the orchestrator still exists),
\* renamed (channels reclassified by a rename since the local pass;
\* history) and crashed (the task failed while using the dead object).
\* ------------------------------------------------------------------------
ReviewStep == DiscoveryStep /\ UNCHANGED <<sync, fader>>

\* Steps 4 to 9 of run(): the roles of the local classification are stored
\* with channelMap_.updateProfile and the review thread is detached with a
\* copy of the profiles.
LocalPass ==
    /\ ReviewStep
    /\ review = <<>>
    /\ \E local \in [1..ChannelCount -> Roles] :
          /\ profiles' = local
          /\ review' = <<[pc |-> "asking", profiles |-> local, alive |-> TRUE,
                          renamed |-> {}, crashed |-> FALSE]>>

\* start() returns: the orchestrator, a local variable of start(), is
\* destroyed; the detached thread is not joined.
OrchestratorDestroyed ==
    /\ ReviewStep
    /\ review # <<>>
    /\ review[1].alive
    /\ review' = <<[review[1] EXCEPT !.alive = FALSE]>>
    /\ UNCHANGED profiles

\* A Name update of channel ch after the local pass: the agent's callback
\* reclassifies the channel.
LiveRename ==
    /\ ReviewStep
    /\ review # <<>>
    /\ \E ch \in 1..ChannelCount, r \in Roles :
          /\ profiles' = Reclassified(ch, r)
          /\ review' = <<[review[1] EXCEPT !.renamed = @ \cup {ch}]>>

\* review.review(std::move(profiles)): the task's copy comes back with the
\* role of every channel the LLM corrected replaced.
ReviewAnswer ==
    /\ ReviewStep
    /\ review # <<>>
    /\ review[1].pc = "asking"
    /\ \E corrected \in [1..ChannelCount -> Roles] :
          review' = <<[review[1] EXCEPT !.pc = "applying",
                                       !.profiles = corrected]>>
    /\ UNCHANGED profiles

\* The LLM call or the parsing throws: the catch logs it and the task ends
\* with the local classification left in place.
ReviewFail ==
    /\ ReviewStep
    /\ review # <<>>
    /\ review[1].pc = "asking"
    /\ review' = <<[review[1] EXCEPT !.pc = "done"]>>
    /\ UNCHANGED profiles

\* for (auto& p : profiles) channelMap_.updateProfile(p), through the
\* task's captured this.  With the orchestrator destroyed the read of
\* this->channelMap_ is undefined: the stale reference may still work, or
\* the task faults.
ReviewApply ==
    /\ ReviewStep
    /\ review # <<>>
    /\ review[1].pc = "applying"
    /\ \/ /\ profiles' = review[1].profiles
          /\ review' = <<[review[1] EXCEPT !.pc = "done"]>>
       \/ /\ ~review[1].alive
          /\ review' = <<[review[1] EXCEPT !.pc = "done", !.crashed = TRUE]>>
          /\ UNCHANGED profiles

ReviewNext ==
    \/ LocalPass
    \/ OrchestratorDestroyed
    \/ LiveRename
    \/ ReviewAnswer
    \/ ReviewFail
    \/ ReviewApply

SpecReview == Init /\ [][ReviewNext]_vars

\* ------------------------------------------------------------------------
\* The receive threads of the three console adapters.  Each iteration of
\* receiveLoop is one recv call whose result the environment chooses: data,
\* a timeout (EAGAIN / EWOULDBLOCK), an orderly close by the peer (0), or a
\* socket error.  recvLoop is the state of the thread: "running", ended by
\* "error", ended by "closed", or "joined" by disconnect().
\* ------------------------------------------------------------------------
AdapterStep ==
    UNCHANGED <<queueVars, laterVars, now, ticks, fader, modelVars, executorVars,
                memoryVars, stopVars, agentVars, uiVars, histVars>>

\* The adapters whose receiveLoop calls onConnectionChange(false) on a
\* socket error: only X32Adapter has that line.
NotifiesOnError(a) == a = "X32"

\* The adapters whose receiveLoop has a branch for n == 0: in the other two
\* a return of 0 matches no branch and the loop calls recv again.
HandlesClose(a) == a = "Avantis"

\* n > 0: the message is parsed.
RecvData(a) ==
    /\ AdapterStep
    /\ recvLoop[a] = "running"
    /\ received[a] < MaxRecv
    /\ received' = [received EXCEPT ![a] = received[a] + 1]
    /\ UNCHANGED <<connected, recvLoop, connCalls>>

\* n < 0 with errno EAGAIN or EWOULDBLOCK: the receive timeout; next
\* iteration.
RecvAgain(a) ==
    /\ AdapterStep
    /\ recvLoop[a] = "running"
    /\ UNCHANGED adapterVars

\* n == 0: the peer closed the connection.
RecvClosed(a) ==
    /\ AdapterStep
    /\ recvLoop[a] = "running"
    /\ IF HandlesClose(a)
       THEN /\ connected' = [connected EXCEPT ![a] = FALSE]
            /\ recvLoop' = [recvLoop EXCEPT ![a] = "closed"]
       ELSE UNCHANGED <<connected, recvLoop>>
    /\ UNCHANGED <<connCalls, received>>

\* n < 0 with any other errno: a socket error.
RecvError(a) ==
    /\ AdapterStep
    /\ recvLoop[a] = "running"
    /\ connected' = [connected EXCEPT ![a] = FALSE]
    /\ connCalls' = IF NotifiesOnError(a)
                     THEN [connCalls EXCEPT ![a] = connCalls[a] + 1]
                     ELSE connCalls
    /\ recvLoop' = [recvLoop EXCEPT ![a] = "error"]
    /\ UNCHANGED received

\* disconnect(): clears running_ and connected_, joins the receive thread,
\* closes the socket and calls onConnectionChange(false).
Disconnect(a) ==
    /\ AdapterStep
    /\ recvLoop[a] # "joined"
    /\ connected' = [connected EXCEPT ![a] = FALSE]
    /\ recvLoop' = [recvLoop EXCEPT ![a] = "joined"]
    /\ connCalls' = [connCalls EXCEPT ![a] = connCalls[a] + 1]
    /\ UNCHANGED received

InitAdapter ==
    /\ InitCore
    /\ fader = [ch \in 1..ChannelCount |-> DefaultFader]

AdapterNext ==
    \E a \in Adapters :
        \/ RecvData(a)
        \/ RecvAgain(a)
        \/ RecvClosed(a)
        \/ RecvError(a)
        \/ Disconnect(a)

SpecAdapter == InitAdapter /\ [][AdapterNext]_vars

\* ------------------------------------------------------------------------
\* Keepalive and meter re-arm: connect(), subscribeMeter() and the adapter's
\* tick(), which dspLoop calls at the head of every iteration.  Elapsed
\* times are whole milliseconds, as duration_cast<milliseconds> yields.
\* ------------------------------------------------------------------------
KeepaliveStep ==
    UNCHANGED <<queueVars, sessionVars, ringVars, llmVars, captureVars, lastVars, ticks, fader, modelVars, executorVars, memoryVars,
                stopVars, adapterVars, agentState, pc, act, vr, uiVars,
                histVars>>

\* The threshold in each adapter's tick().
KeepaliveMs(a) ==
    CASE a = "X32" -> KeepaliveX32Ms
      [] a = "Wing" -> KeepaliveWingMs
      [] OTHER -> KeepaliveAvantisMs

\* Only X32Adapter::tick renews the meter subscription, and only its
\* subscribeMeter stamps lastMeterRenew_.
RenewsMeters(a) == a = "X32"

\* One iteration of dspLoop may take its interval, or the interval and a
\* fader ramp when it executes a clipping fix.
IterationMs == {DspIntervalMs, DspIntervalMs + RampSteps * RampSleepMs}

\* How far the clock may run: past MaxKeepalives meter re-arms.
KeepaliveHorizon ==
    MaxKeepalives * (MeterRenewMs + DspIntervalMs + RampSteps * RampSleepMs)

\* connect(): lastKeepalive_ = now.
Connect(a) ==
    /\ KeepaliveStep
    /\ console = "none"
    /\ console' = a
    /\ lastKeepalive' = now
    /\ UNCHANGED <<lastMeterRenew, metering, now, running>>

\* start() calls subscribeMeter() before it starts the threads:
\* metering_ = true; X32 also sends the subscription through
\* renewMeterSubscription, which stamps lastMeterRenew_.
SubscribeMeter ==
    /\ KeepaliveStep
    /\ console # "none"
    /\ running
    /\ ~metering
    /\ metering' = TRUE
    /\ lastMeterRenew' = IF RenewsMeters(console) THEN now ELSE lastMeterRenew
    /\ UNCHANGED <<console, lastKeepalive, now, running>>

\* stop() clears running_ and calls unsubscribeMeter(): metering_ = false.
UnsubscribeMeter ==
    /\ KeepaliveStep
    /\ running
    /\ metering
    /\ running' = FALSE
    /\ metering' = FALSE
    /\ UNCHANGED <<console, lastKeepalive, lastMeterRenew, now>>

\* `if (ms > 8000)` (5000 for Avantis)
KeepaliveDue(a, elapsed) == elapsed > KeepaliveMs(a)

\* `if (msSinceMeter > 9000)`, inside `if (metering_)`, in X32Adapter only.
MeterRenewDue(a, elapsed) ==
    RenewsMeters(a) /\ metering /\ elapsed > MeterRenewMs

\* One iteration of dspLoop: adapter_.tick() at its head, then the rest of
\* the iteration and the sleep to the end of the interval.
DspTick ==
    /\ KeepaliveStep
    /\ running
    /\ metering
    /\ connected[console]
    /\ now < KeepaliveHorizon
    /\ lastKeepalive' = IF KeepaliveDue(console, now - lastKeepalive)
                         THEN now ELSE lastKeepalive
    /\ lastMeterRenew' = IF MeterRenewDue(console, now - lastMeterRenew)
                          THEN now ELSE lastMeterRenew
    /\ \E d \in IterationMs : now' = now + d
    /\ UNCHANGED <<console, metering, running>>

InitKeepalive ==
    /\ InitCore
    /\ fader = [ch \in 1..ChannelCount |-> DefaultFader]

KeepaliveNext ==
    \/ \E a \in Adapters : Connect(a)
    \/ SubscribeMeter
    \/ UnsubscribeMeter
    \/ DspTick

SpecKeepalive == InitKeepalive /\ [][KeepaliveNext]_vars

\* ------------------------------------------------------------------------
\* The session memory, built with a cap of MaxEntries, under record calls
\* from any thread, and the threads that execute an action and then record
\* it.  Each record call runs under mtx_, so it is one step.  An entry is
\* its type, the number of the insertion that made it, and the id of its
\* action (0 when it has none).
\* ------------------------------------------------------------------------
MemoryStep ==
    UNCHANGED <<queueVars, keepaliveVars, ringVars, llmVars, captureVars, lastVars, now, ticks, fader, modelVars, ramp,
                memoryVars, stopVars, adapterVars, running, agentState, vr,
                uiVars, engOrder, passed, executed, lastCall>>

MemoryEntry(type, seq, id) == [type |-> type, seq |-> seq, id |-> id]

\* trimLocked popping the newest entry in place of the oldest.
RECURSIVE trimLockedBack(_)
trimLockedBack(es) ==
    IF Len(es) > MaxEntries
    THEN trimLockedBack(SubSeq(es, 1, Len(es) - 1))
    ELSE es

\* while (entries_.size() > maxEntries_) entries_.pop_front();
RECURSIVE trimLocked(_)
trimLocked(es) ==
    IF Len(es) > MaxEntries THEN trimLocked(Tail(es)) ELSE es

\* entries_.push_back({...}); trimLocked();
PushEntry(type, id) ==
    /\ inserted < MaxRecords
    /\ entries' = trimLocked(Append(entries, MemoryEntry(type, inserted + 1, id)))
    /\ inserted' = inserted + 1

\* The entry types of the record calls that carry no executed action.
NoteTypes == {"ActionRejected", "Observation", "EngOverride", "MixSnapshot"}

\* recordRejection / recordObservation / recordEngineerOverride /
\* recordSnapshot
RecordNote ==
    /\ MemoryStep
    /\ \E type \in NoteTypes : PushEntry(type, 0)
    /\ UNCHANGED <<instructed, writes, pc, act, nextId>>

\* recordInstruction, called by onChatMessage with the engineer's message.
recordInstruction ==
    /\ MemoryStep
    /\ PushEntry("EngInstruction", 0)
    /\ instructed' = instructed \cup {inserted + 1}
    /\ UNCHANGED <<writes, pc, act, nextId>>

\* The last n elements of s.
LastN(s, n) == IF Len(s) > n THEN SubSeq(s, Len(s) - n + 1, Len(s)) ELSE s

\* activeInstructions(maxCount): the last maxCount EngInstruction entries
\* of entries_, oldest first.
activeInstructions(maxCount) ==
    LastN(SelectSeq(entries, LAMBDA e : e.type = "EngInstruction"), maxCount)

\* The threads that record the actions they execute: llmLoop,
\* executionLoop and the chat task.
Recorders == {"llm", "exec", "chat"}

\* Where each thread is between two actions.
Rest(w) == IF w = "chat" THEN "idle" ELSE "loop"

\* executor_.execute(vr.clamped) returns: the action's write has been sent.
WorkerExecute(w) ==
    /\ MemoryStep
    /\ pc[w] = Rest(w)
    /\ nextId < MaxRecords
    /\ nextId' = nextId + 1
    /\ act' = [act EXCEPT ![w] = [NoAction EXCEPT !.id = nextId + 1,
                                                  !.type = "SetFader",
                                                  !.channel = 1,
                                                  !.value = DefaultFader]]
    /\ writes' = FaderWrite(writes, nextId + 1, 1, DefaultFader, now)
    /\ pc' = [pc EXCEPT ![w] = "record"]
    /\ UNCHANGED <<sessionVars>>

\* memory_.recordAction(vr.clamped, context), a separate call after
\* execute has returned.
WorkerRecord(w) ==
    /\ MemoryStep
    /\ pc[w] = "record"
    /\ PushEntry("ActionTaken", act[w].id)
    /\ pc' = [pc EXCEPT ![w] = Rest(w)]
    /\ act' = [act EXCEPT ![w] = NoAction]
    /\ UNCHANGED <<instructed, writes, nextId>>

InitMemory ==
    /\ InitCore
    /\ fader = [ch \in 1..ChannelCount |-> DefaultFader]

MemoryNext ==
    \/ RecordNote
    \/ recordInstruction
    \/ \E w \in Recorders : WorkerExecute(w) \/ WorkerRecord(w)

SpecMemory == InitMemory /\ [][MemoryNext]_vars

\* ------------------------------------------------------------------------
\* RingBuffer with one producer (the audio callback) and one consumer (the
\* DSP thread) running concurrently.  write and read are three steps each:
\* the loads of the two positions, the memcpy, and the release store of the
\* caller's own position.  The producer offers the samples 1, 2, 3, ... in
\* order: sample k is the k-th sample accepted.  Positions are size_t and
\* only ever grow; they stay far below 2^64 here.
\* ------------------------------------------------------------------------
RingStep ==
    UNCHANGED <<queueVars, keepaliveVars, sessionVars, llmVars, captureVars, lastVars, now, ticks, fader,
                modelVars, executorVars, memoryVars, stopVars, adapterVars,
                agentVars, uiVars, histVars>>

Min(a, b) == IF a < b THEN a ELSE b

\* The free space computed without the read position.
FreeIgnoringReader(wr, rd) == RingCapacity

\* size_t available = capacity_ - (wr - rd);
Free(wr, rd) == RingCapacity - (wr - rd)

\* The sizes a caller may ask for.
Counts == 1..(RingCapacity + 1)

\* write: the two loads, toWrite, and the early return of 0.
WriteBegin ==
    /\ RingStep
    /\ producer.pc = "idle"
    /\ writePos < MaxSamples
    /\ \E count \in Counts :
          /\ count <= MaxSamples - writePos
          /\ LET toWrite == Min(count, Free(writePos, readPos))
             IN producer' = IF toWrite = 0
                            THEN [pc |-> "idle", n |-> 0, ret |-> 0]
                            ELSE [pc |-> "copy", n |-> toWrite, ret |-> 0]
    /\ UNCHANGED <<buf, writePos, readPos, consumer, readOut>>

\* write: the two memcpy calls, to wrIdx onwards and then from index 0.
WriteCopy ==
    /\ RingStep
    /\ producer.pc = "copy"
    /\ buf' = [i \in 0..(RingCapacity - 1) |->
                 IF \E k \in 0..(producer.n - 1) : (writePos + k) % RingCapacity = i
                 THEN LET k == CHOOSE k \in 0..(producer.n - 1) :
                                   (writePos + k) % RingCapacity = i
                      IN writePos + k + 1
                 ELSE buf[i]]
    /\ producer' = [producer EXCEPT !.pc = "store"]
    /\ UNCHANGED <<writePos, readPos, consumer, readOut>>

\* write: writePos_.store(wr + toWrite); return toWrite.
WriteEnd ==
    /\ RingStep
    /\ producer.pc = "store"
    /\ writePos' = writePos + producer.n
    /\ producer' = [pc |-> "idle", n |-> 0, ret |-> producer.n]
    /\ UNCHANGED <<buf, readPos, consumer, readOut>>

\* read: the two loads, toRead, and the early return of 0.
ReadBegin ==
    /\ RingStep
    /\ consumer.pc = "idle"
    /\ \E count \in Counts :
          LET toRead == Min(count, writePos - readPos)
          IN consumer' = IF toRead = 0
                         THEN [pc |-> "idle", n |-> 0, ret |-> 0]
                         ELSE [pc |-> "copy", n |-> toRead, ret |-> 0]
    /\ UNCHANGED <<buf, writePos, readPos, producer, readOut>>

\* read: the two memcpy calls into out.
ReadCopy ==
    /\ RingStep
    /\ consumer.pc = "copy"
    /\ readOut' = readOut \o
                     [k \in 1..consumer.n |-> buf[(readPos + k - 1) % RingCapacity]]
    /\ consumer' = [consumer EXCEPT !.pc = "store"]
    /\ UNCHANGED <<buf, writePos, readPos, producer>>

\* read: readPos_.store(rd + toRead); return toRead.
ReadEnd ==
    /\ RingStep
    /\ consumer.pc = "store"
    /\ readPos' = readPos + consumer.n
    /\ consumer' = [pc |-> "idle", n |-> 0, ret |-> consumer.n]
    /\ UNCHANGED <<buf, writePos, producer, readOut>>

InitRing ==
    /\ InitCore
    /\ fader = [ch \in 1..ChannelCount |-> DefaultFader]

RingNext ==
    \/ WriteBegin \/ WriteCopy \/ WriteEnd
    \/ ReadBegin \/ ReadCopy \/ ReadEnd

SpecRing == InitRing /\ [][RingNext]_vars

\* ------------------------------------------------------------------------
\* MixAction::toJson / fromJson and LLMDecisionEngine::decideMixActions.
\* A JSON value is its type and its content; a JSON object is a function
\* from its keys to values.  nlohmann's j.value(key, default) returns the
\* default when the key is absent, the value when it has the type asked
\* for, and throws type_error otherwise.
\* ------------------------------------------------------------------------
LlmStep ==
    UNCHANGED <<queueVars, keepaliveVars, sessionVars, ringVars, captureVars, lastVars, now, ticks,
                fader, modelVars, executorVars, memoryVars, stopVars,
                adapterVars, agentVars, uiVars, histVars>>

JNum(v) == [t |-> "number", v |-> v]

JStr(v) == [t |-> "string", v |-> v]

\* enum class ActionType, in declaration order.
ActionTypes ==
    <<"SetFader", "SetPan", "SetEqBand", "SetCompressor", "SetGate",
      "SetHighPass", "SetSendLevel", "MuteChannel", "UnmuteChannel",
      "NoAction", "Observation">>

\* enum class Urgency, in declaration order.
UrgencyOrder == <<"Immediate", "Fast", "Normal", "Low">>

\* static_cast<int>(e)
EnumIndex(order, e) == (CHOOSE k \in 1..Len(order) : order[k] = e) - 1

Mix(type, ch, value, value2, value3, band, urgency, reason, role) ==
    [type |-> type, channel |-> ch, value |-> value, value2 |-> value2,
     value3 |-> value3, band |-> band, urgency |-> urgency,
     reason |-> reason, role |-> role]

toJson(a) ==
    [type |-> JNum(EnumIndex(ActionTypes, a.type)),
     channel |-> JNum(a.channel),
     value |-> JNum(a.value),
     value2 |-> JNum(a.value2),
     value3 |-> JNum(a.value3),
     band |-> JNum(a.band),
     urgency |-> JNum(EnumIndex(UrgencyOrder, a.urgency)),
     reason |-> JStr(a.reason),
     role |-> JStr(a.role),
     description |-> JStr(a.type)]

\* j.value(key, default) for a default of JSON type t.
JsonValue(j, key, t, default) ==
    IF key \notin DOMAIN j THEN [ok |-> TRUE, v |-> default]
    ELSE IF j[key].t = t THEN [ok |-> TRUE, v |-> j[key].v]
    ELSE [ok |-> FALSE, v |-> default]

\* The if / else-if chain on the "action" string.
TypeOfString(str) ==
    CASE str = "set_fader" -> "SetFader"
      [] str = "set_pan" -> "SetPan"
      [] str = "set_eq" -> "SetEqBand"
      [] str = "set_comp" -> "SetCompressor"
      [] str = "set_gate" -> "SetGate"
      [] str = "set_hpf" -> "SetHighPass"
      [] str = "set_send" -> "SetSendLevel"
      [] str = "mute" -> "MuteChannel"
      [] str = "unmute" -> "UnmuteChannel"
      [] str = "observation" -> "Observation"
      [] OTHER -> "NoAction"

\* The if / else-if chain on the "urgency" string.
UrgencyOfString(str) ==
    CASE str = "immediate" -> "Immediate"
      [] str = "fast" -> "Fast"
      [] str = "low" -> "Low"
      [] OTHER -> "Normal"

\* MixAction::fromJson: the action, or raised when a j.value call throws.
fromJson(j) ==
    LET typeStr == JsonValue(j, "action", "string", "no_action")
        ch == JsonValue(j, "channel", "number", 0)
        value == JsonValue(j, "value", "number", 0)
        value2 == JsonValue(j, "value2", "number", 0)
        value3 == JsonValue(j, "value3", "number", Scale)
        band == JsonValue(j, "band", "number", 1)
        reason == JsonValue(j, "reason", "string", "")
        role == JsonValue(j, "role", "string", "")
        urg == JsonValue(j, "urgency", "string", "normal")
    IN [raised |-> ~(typeStr.ok /\ ch.ok /\ value.ok /\ value2.ok
                      /\ value3.ok /\ band.ok /\ reason.ok /\ role.ok
                      /\ urg.ok),
        action |-> Mix(TypeOfString(typeStr.v), ch.v, value.v,
                       value2.v, value3.v, band.v, UrgencyOfString(urg.v),
                       reason.v, role.v)]

\* The actions whose round trip is taken.
MixInputs ==
    { Mix(type, ch, value, 0, Scale, band, urgency, reason, "LeadVocal") :
        type \in {"SetFader", "SetEqBand", "NoAction"},
        ch \in {1, 7},
        value \in {0, 650},
        band \in {0, 1},
        urgency \in Urgencies,
        reason \in {"", "vocal needs boost"} }

\* fromJson(a.toJson()) for one action a.
RoundTrip ==
    /\ LlmStep
    /\ ~roundTrip.done
    /\ \E a \in MixInputs :
          roundTrip' = [done |-> TRUE, original |-> a,
                        decoded |-> fromJson(toJson(a))]
    /\ UNCHANGED engine

\* JSON objects an LLM may put in its array: a fader move as the system
\* prompt asks for it, and one whose urgency is a number.
LlmItems ==
    { [action |-> JStr("set_fader"), channel |-> JNum(1), value |-> JNum(500),
       urgency |-> JStr("fast"), reason |-> JStr("vocal needs boost")],
      [action |-> JStr("set_fader"), channel |-> JNum(1), value |-> JNum(500),
       urgency |-> JNum(1)] }

\* What a backend may answer: text with no JSON array, text between [ and ]
\* that json::parse rejects, and arrays of up to two objects.
Responses ==
    {[kind |-> "noArray", items |-> <<>>],
     [kind |-> "malformed", items |-> <<>>],
     [kind |-> "array", items |-> <<>>]}
    \cup {[kind |-> "array", items |-> <<i>>] : i \in LlmItems}
    \cup {[kind |-> "array", items |-> <<i1, i2>>] : i1 \in LlmItems, i2 \in LlmItems}

\* The loop of parseActions over the parsed array: fromJson of each item
\* is pushed until one throws; the catch keeps what was pushed.
RECURSIVE ParseItems(_)
ParseItems(items) ==
    IF items = <<>> THEN <<>>
    ELSE LET r == fromJson(Head(items))
         IN IF r.raised THEN <<>>
            ELSE <<r.action>> \o ParseItems(Tail(items))

parseActions(response) ==
    IF response.kind = "array" THEN ParseItems(response.items) ELSE <<>>

\* callRaw's answer when every backend failed.
EmptyResponse == [kind |-> "noArray", items |-> <<>>]

\* decideMixActions: callRaw counts the call, and counts it failed only
\* when every backend threw; parseActions turns the response into actions.
\* llmLoop then handles the actions and sleeps to its next iteration.
decideMixActions ==
    /\ LlmStep
    /\ pc["llm"] = "loop"
    /\ engine.totalCalls < MaxCalls
    /\ \E success \in BOOLEAN, response \in Responses :
          LET got == IF success THEN response ELSE EmptyResponse
          IN engine' = [totalCalls |-> engine.totalCalls + 1,
                        failedCalls |-> IF success THEN engine.failedCalls
                                        ELSE engine.failedCalls + 1,
                        response |-> IF success THEN response.kind
                                     ELSE "failed",
                        actions |-> parseActions(got)]
    /\ UNCHANGED roundTrip

InitLlm ==
    /\ InitCore
    /\ fader = [ch \in 1..ChannelCount |-> DefaultFader]

LlmNext == RoundTrip \/ decideMixActions

SpecLlm == InitLlm /\ [][LlmNext]_vars

\* ------------------------------------------------------------------------
\* Audio capture: the PortAudio callback thread writes into a channel's ring
\* buffer while the stream runs, and the DSP thread's tick handles the
\* capture.  The ring buffer of the ring section stands for one channel's
\* buffer; ticks counts the DSP iterations.
CaptureStep ==
    UNCHANGED <<queueVars, keepaliveVars, sessionVars, llmVars, lastVars, now,
                fader, modelVars, executorVars, memoryVars, stopVars,
                adapterVars, agentVars, uiVars, histVars>>

\* start: Pa_StartStream, running_ = true.
CaptureStart ==
    /\ CaptureStep
    /\ capture.state = "open"
    /\ capture' = [capture EXCEPT !.state = "running"]
    /\ UNCHANGED <<ringVars, ticks>>

\* stop: running_ = false, the stream is stopped and closed; Pa_StopStream
\* returns once the stream callback has finished.
CaptureStop ==
    /\ CaptureStep
    /\ capture.state = "running"
    /\ producer.pc = "idle"
    /\ capture' = [capture EXCEPT !.state = "stopped"]
    /\ UNCHANGED <<ringVars, ticks>>

\* handleAudio: the stream callback writes the block into the ring buffer.
handleAudio ==
    /\ capture.state = "running" \/ producer.pc # "idle"
    /\ \/ WriteBegin
       \/ WriteCopy
       \/ WriteEnd

\* The audio part of one dspLoop iteration: with the capture running it
\* assigns the FFT callback; nothing in the iteration reads the ring
\* buffers (consumeChannels has no caller).
DspAudioTick ==
    /\ CaptureStep
    /\ ticks < MaxDspTicks
    /\ ticks' = ticks + 1
    /\ capture' = IF capture.state = "running"
                  THEN [capture EXCEPT !.callback = TRUE]
                  ELSE capture
    /\ UNCHANGED ringVars

InitCapture ==
    /\ InitCore
    /\ fader = [ch \in 1..ChannelCount |-> DefaultFader]

CaptureNext ==
    \/ CaptureStart
    \/ CaptureStop
    \/ handleAudio
    \/ DspAudioTick

SpecCapture == InitCapture /\ [][CaptureNext]_vars

\* ------------------------------------------------------------------------
\* Properties
\* ------------------------------------------------------------------------

\* C1: every action handed to the executor, on each of the four paths, is
\* the clamped output of a validate call that returned valid for that
\* action; nothing is executed without having passed the validator.
ExecutedPassedValidator ==
    /\ executed \subseteq passed
    /\ \A w \in Workers :
          pc[w] = "execute" =>
              /\ vr[w].valid
              /\ vr[w].clamped \in passed
              /\ vr[w].clamped.id = act[w].id

\* An LLM fader move to 1.0 was executed as the clamped move to 0.9.
ClampedActionExecuted ==
    \E a \in executed :
        a.type = "SetFader" /\ a.value = DefaultFader + maxFaderDeltaNorm

\* The entries the queue holds in its three deques.
HeldEntries == Range(pending) \cup Range(approved) \cup Range(rejected)

FlagCount(q) ==
    (IF q.approved THEN 1 ELSE 0) + (IF q.rejected THEN 1 ELSE 0)
        + (IF q.expired THEN 1 ELSE 0)

\* C2 as stated: for every entry the queue holds, at most one of approved,
\* rejected and expired is true.
FlagsExclusive == \A q \in HeldEntries : FlagCount(q) <= 1

\* C2: for every entry the queue holds, rejected is never true together
\* with approved or expired, and expired is true only together with
\* approved (an entry approved by timeout carries both).
RejectedExclusiveExpiredApproved ==
    \A q \in HeldEntries :
        /\ q.rejected => ~q.approved /\ ~q.expired
        /\ q.expired => q.approved

\* approved_ holds an entry the sweep expired: it carries approved and
\* expired together.
ExpiredEntryHeld ==
    \E j \in 1..Len(approved) :
        approved[j].expired /\ approved[j].approved /\ ~approved[j].rejected

\* The agent has exited: stop() has joined the threads, or main destroyed
\* the agent after the UI quit.
AgentExited == agentState \in {"stopped", "destroyed"}

\* C3 as stated: when the agent has exited, every entry of the queue holds
\* exactly one of approved, rejected and expired, and none is left pending.
OneTerminalStateAtExit ==
    AgentExited =>
        /\ pending = <<>>
        /\ \A q \in HeldEntries : FlagCount(q) = 1

\* C4 as stated: in approve_all mode no action is executed unless the
\* engineer approved it through approve or approveAll.
ApproveAllNeedsEngineer ==
    mode = "ApproveAll" => \A a \in executed : a.how = "engineer"

\* A step in which popApproved runs its sweep, on the queue used on its own:
\* the call starts waiting or returns an action at once.
SweepStep ==
    /\ pc["exec"] = "loop"
    /\ pc'["exec"] = "waiting" \/ act'["exec"] # NoAction

\* The timeouts C5 names.
ClaimedTimeout(u) ==
    CASE u = "Immediate" -> 500
      [] u = "Fast" -> 2000
      [] u = "Normal" -> 10000
      [] u = "Low" -> 30000

\* C5: the sweep run by popApproved auto-approves every pending entry whose
\* (now - queued) exceeds the timeout of its urgency (500, 2000, 10000,
\* 30000 ms), marking it expired, and leaves pending every entry that is
\* still within its timeout.
SweepExpiresExactlyOverdue ==
    [][SweepStep =>
        \A j \in 1..Len(pending) :
            LET q == pending[j]
                out == act'["exec"]
            IN IF now - q.queued > ClaimedTimeout(q.action.urgency)
               THEN /\ q \notin Range(pending')
                    /\ \/ \E k \in 1..Len(approved') :
                              /\ approved'[k].action.id = q.action.id
                              /\ approved'[k].approved
                              /\ approved'[k].expired
                       \/ out.id = q.action.id /\ out.how = "timeout"
               ELSE /\ q \in Range(pending')
                    /\ \A k \in 1..Len(approved') :
                          approved'[k].action.id # q.action.id
                    /\ out.id # q.action.id]_vars

\* popApproved has just returned an entry its sweep expired, and left
\* pending an older entry that is still within its timeout.
SweptOneKeptOne ==
    /\ act["exec"].how = "timeout"
    /\ \E j \in 1..Len(pending) :
          /\ pending[j].queued < now
          /\ now - pending[j].queued <= pending[j].timeoutMs

\* C6 as stated: popApproved returns empty from its wait only after the
\* full timeout has elapsed.
EmptyOnlyAfterTimeout ==
    [][(/\ pc["exec"] = "waiting"
        /\ pc'["exec"] = "loop"
        /\ approved = <<>>) => now >= deadline]_vars

\* C7: the actions approved through approve(i) or approveAll have left
\* pending_, and those not yet returned by popApproved wait in approved_
\* once each, in the order of approval (approveAll in submission order):
\* popApproved returns them in that order.
EngineerApprovedInOrder ==
    /\ engOrder = Ids(SelectSeq(approved, LAMBDA q : q.action.how = "engineer"))
    /\ \A j \in 1..Len(pending) : pending[j].action.id \notin Range(engOrder)
    /\ \A j, k \in 1..Len(approved) :
          approved[j].action.id = approved[k].action.id => j = k
    /\ act["exec"].id \notin Range(Ids(approved)) \cup Range(Ids(pending))

\* popApproved has just returned an action the engineer approved while
\* another one he approved is still to be returned.
ReturnedOneOfTwoApproved ==
    /\ act["exec"].how = "engineer"
    /\ engOrder # <<>>

\* C8: an action rejected through reject(i) or rejectAll is no longer
\* pending, is not in approved_, and is not the action popApproved returns.
RejectedNeverReturned ==
    \A j \in 1..Len(rejected) :
        LET id == rejected[j].action.id
        IN /\ id \notin Range(Ids(pending))
           /\ id \notin Range(Ids(approved))
           /\ act["exec"].id # id

\* An action was rejected from pending_, and popApproved has just returned
\* another action.
PoppedAfterReject ==
    /\ \E j \in 1..Len(rejected) : rejected[j].timeoutMs > 0
    /\ act["exec"] # NoAction

\* C9: in AutoUrgent mode, submit returns true and queues nothing for an
\* Immediate or Fast action, and returns false and adds exactly one pending
\* entry (that action) for a Normal or Low action.
AutoUrgentSubmit ==
    [][(lastCall' # NoCall /\ mode = "AutoUrgent") =>
        LET a == lastCall'.action
        IN IF a.urgency \in {"Immediate", "Fast"}
           THEN /\ lastCall'.ret = TRUE
                /\ pending' = pending
                /\ approved' = approved
                /\ rejected' = rejected
           ELSE /\ lastCall'.ret = FALSE
                /\ Len(pending') = Len(pending) + 1
                /\ SubSeq(pending', 1, Len(pending)) = pending
                /\ pending'[Len(pending')].action = a
                /\ approved' = approved
                /\ rejected' = rejected]_vars

\* In AutoUrgent mode a Fast action was just auto-approved while an
\* earlier Normal or Low action waits in pending_.
AutoUrgentBothCases ==
    /\ mode = "AutoUrgent"
    /\ lastCall.ret
    /\ lastCall.action.urgency = "Fast"
    /\ \E j \in 1..Len(pending) : pending[j].action.urgency \in {"Normal", "Low"}

\* C10: in DenyAll mode, submit returns false, leaves pending_ as it was
\* and records exactly one rejection, for the submitted action.
DenyAllSubmit ==
    [][(lastCall' # NoCall /\ mode = "DenyAll") =>
        /\ lastCall'.ret = FALSE
        /\ pending' = pending
        /\ approved' = approved
        /\ Len(rejected') = Len(rejected) + 1
        /\ SubSeq(rejected', 1, Len(rejected)) = rejected
        /\ rejected'[Len(rejected')].action = lastCall'.action
        /\ rejected'[Len(rejected')].rejected]_vars

\* A DenyAll submit was just refused while an action queued in an earlier
\* mode is pending.
DeniedWhilePending ==
    /\ mode = "DenyAll"
    /\ lastCall # NoCall
    /\ ~lastCall.ret
    /\ pending # <<>>
    /\ rejected # <<>>

\* C11: in AutoAll mode, submit returns true whatever the urgency and
\* leaves the pending count (and the three deques) unchanged.
AutoAllSubmit ==
    [][(lastCall' # NoCall /\ mode = "AutoAll") =>
        /\ lastCall'.ret = TRUE
        /\ Len(pending') = Len(pending)
        /\ pending' = pending
        /\ approved' = approved
        /\ rejected' = rejected]_vars

\* An AutoAll submit of a Low-urgency action was just auto-approved while
\* an action queued in an earlier mode is pending.
AutoAllWhilePending ==
    /\ mode = "AutoAll"
    /\ lastCall.ret
    /\ lastCall.action.urgency = "Low"
    /\ pending # <<>>

\* The writes of the latest executeFader call, once it has returned.
CallWrites == SelectSeq(writes, LAMBDA w : w.call = ramp.call)

CallReturned == ramp.call > 0 /\ ~ramp.active

\* C12 as stated: a move whose delta exceeds 0.02 is written as 10 equal
\* steps 20 ms apart (at most 200 ms in all), the last of them writing the
\* exact target; any other move is a single direct write of the target.
RampTenStepsAsClaimed ==
    CallReturned =>
        LET ws == CallWrites
        IN IF Abs(ramp.target - ramp.current) > DirectThreshold
           THEN /\ Len(ws) = 10
                /\ \A k \in 1..9 :
                      /\ ws[k + 1].at - ws[k].at = 20
                      /\ ws[k + 1].value - ws[k].value = ws[1].value - ramp.current
                /\ ws[10].value = ramp.target
                /\ ws[10].at - ws[1].at <= 200
           ELSE /\ Len(ws) = 1
                /\ ws[1].value = ramp.target

\* C12: a move whose delta is at least 0.02 is written as 10 equal steps
\* of a tenth of the delta, each followed by a sleep of at least 20 ms (at
\* least 200 ms in all), and then an eleventh write of the exact target; a
\* move whose delta is below 0.02 is a single direct write of the target.
RampTenStepsThenTarget ==
    CallReturned =>
        LET ws == CallWrites
            delta == ramp.target - ramp.current
        IN IF Abs(delta) >= 20
           THEN /\ Len(ws) = 11
                /\ \A k \in 1..10 :
                      /\ ws[k + 1].at - ws[k].at >= 20
                      /\ ws[k].value - (IF k = 1 THEN ramp.current
                                                 ELSE ws[k - 1].value)
                            = ws[1].value - ramp.current
                      /\ 10 * (ws[k].value - ramp.current) <= k * Abs(delta)
                      /\ 10 * (ramp.current - ws[k].value) <= k * Abs(delta)
                /\ ws[11].value = ramp.target
                /\ ws[11].at - ws[1].at >= 200
                /\ \A k \in 1..11 : ws[k].channel = ramp.channel
           ELSE /\ Len(ws) = 1
                /\ ws[1].value = ramp.target
                /\ ws[1].channel = ramp.channel

\* A move of exactly 0.02 has been ramped: eleven writes.
BoundaryMoveRamped ==
    /\ CallReturned
    /\ Abs(ramp.target - ramp.current) = 20
    /\ Len(CallWrites) = 11

\* The latest validate call: its argument and its result.
ValidatedAction == act["exec"]

ValidationResult == vr["exec"]

ValidChannel(ch) == ch >= 1 /\ ch <= ChannelCount

\* C13 as stated: for a fader action on a valid channel whose target is
\* more than maxFaderDelta (0.15) from the current fader, the clamped value
\* is exactly maxFaderDelta from the current fader and the warning is
\* non-empty.
FaderDeltaClampedAsClaimed ==
    LET a == ValidatedAction
        r == ValidationResult
    IN (/\ a.type = "SetFader"
        /\ ValidChannel(a.channel)
        /\ Abs(a.value - fader[a.channel]) > 150) =>
           /\ Abs(r.clamped.value - fader[a.channel]) = 150
           /\ r.warning

\* C13: for a fader action on a valid channel whose target, once limited
\* to the range 0..1, is more than maxFaderDelta (0.15) from the current
\* fader, the clamped value is exactly maxFaderDelta from the current
\* fader, on the side of the target, and the warning is non-empty.
FaderDeltaClamped ==
    LET a == ValidatedAction
        r == ValidationResult
        target == IF a.value < 0 THEN 0 ELSE IF a.value > 1000 THEN 1000
                  ELSE a.value
    IN (/\ a.type = "SetFader"
        /\ ValidChannel(a.channel)
        /\ Abs(target - fader[a.channel]) > 150) =>
           /\ r.valid
           /\ Abs(r.clamped.value - fader[a.channel]) = 150
           /\ (target > fader[a.channel]) = (r.clamped.value > fader[a.channel])
           /\ r.warning

\* A fader move from 0.5 to 1.0 was validated and clamped to 0.65.
FaderMoveClampedUp ==
    /\ ValidatedAction.type = "SetFader"
    /\ ValidChannel(ValidatedAction.channel)
    /\ fader[ValidatedAction.channel] = 500
    /\ ValidatedAction.value = 1000
    /\ ValidationResult.clamped.value = 650

\* C14 as stated: validate returns valid = false for every fader, EQ,
\* compressor, HPF or send action whose channel is outside 1..channelCount.
InvalidChannelRejected ==
    LET a == ValidatedAction
    IN (/\ a.type \in {"SetFader", "SetEqBand", "SetCompressor",
                       "SetHighPass", "SetSendLevel"}
        /\ ~ValidChannel(a.channel)) => ~ValidationResult.valid

\* C15 as stated: whenever a value of the clamped action differs from the
\* submitted action, the warning is non-empty.
WarningWheneverClamped ==
    ValidationResult.clamped # ValidatedAction => ValidationResult.warning

\* A step in which thread w finishes a validation that marked its action
\* invalid.
InvalidValidated(w) ==
    /\ pc[w] = "validate"
    /\ pc'[w] # "validate"
    /\ ~validate(act[w], fader).valid

\* C16 as stated: whenever validation marks an action invalid, on the
\* execution thread, the LLM auto-approve path, the DSP clipping fix or the
\* chat task, the action is not executed and a rejection for it is recorded
\* in session memory.
InvalidRejectedAndRecorded ==
    [][\A w \in Workers :
          InvalidValidated(w) =>
              /\ pc'[w] # "execute"
              /\ act[w].id \in rejections']_vars

\* C18 as stated: a failure raised inside an iteration of the DSP, LLM or
\* execution loop is handled inside the loop; nothing escapes the loop as an
\* unhandled condition.
NoFailureEscapes == agentState # "aborted"

\* The five steps of stop(), in the order of the code.
StopSequence == <<"flip", "stopUI", "unsubscribe", "join", "persist">>

\* C19 as stated: a stop() that has returned went through flip, stop UI,
\* unsubscribe, join and persist in that order, and no agent thread is still
\* running.
StopRunsFullSequence ==
    agentState \in {"stopped", "destroyed"} =>
        /\ stopLog = StopSequence
        /\ \A w \in {"dsp", "llm", "exec"} : pc[w] = "done"
        /\ uiPc = "done"

\* A call of a console-model or channel-map operation with a channel or bus
\* index of 0 or above the capacity.
OutOfRangeCall ==
    \/ \E i \in ModelIndexes \ (1..ChannelCount) :
          \/ \E v \in FaderValues : applyUpdate("Channel", i, v)
          \/ \E m \in MeterValues : updateMeter(i, m)
          \/ \E data \in SpectralValues : updateSpectral(i, data)
          \/ \E r \in Roles : updateProfile(i, r)
          \/ channel(i)
          \/ getProfile(i)
    \/ \E b \in BusIndexes \ (1..BusCount) :
          \/ \E v \in FaderValues : applyUpdate("Bus", b, v)
          \/ bus(b)

\* C17 as stated: every console-model or channel-map operation called with
\* an index of 0 or above the capacity, mutator or reader, leaves all state
\* unchanged and does not raise.
OutOfRangeIsNoOp ==
    [][OutOfRangeCall =>
          /\ UNCHANGED <<fader, busFader, meters, spectral, profiles>>
          /\ ~thrown']_vars

\* A step in which adapter a's recv fails with a socket error.
SocketError(a) == recvLoop[a] = "running" /\ recvLoop'[a] = "error"

\* C20 as stated: in each of the three adapters a socket error on the
\* receive path marks the adapter disconnected, invokes
\* onConnectionChange(false) and ends the receive loop, which is not
\* restarted.
SocketErrorNotifies ==
    [][\A a \in Adapters :
          /\ SocketError(a) =>
                /\ ~connected'[a]
                /\ connCalls'[a] = connCalls[a] + 1
          /\ recvLoop[a] # "running" => recvLoop'[a] # "running"]_vars

\* A step in which a thread of the agent hands an action to the executor,
\* which writes it to the console through the adapter.
ConsoleWrite == executed' # executed

\* C21 as stated: after the adapter has signalled disconnection through
\* onConnectionChange(false), no thread sends a further parameter write to
\* the console.
NoWriteAfterDisconnect ==
    [][ConsoleWrite => connCalls[AgentAdapter] = 0]_vars

\* A step in which the adapter sends a keepalive query after an earlier one
\* (connect sends the first).
KeepaliveSent == console # "none" /\ lastKeepalive' # lastKeepalive

\* A step in which tick() re-arms the meter subscription.
MeterRearmed ==
    /\ metering
    /\ metering'
    /\ lastMeterRenew' # lastMeterRenew

\* C22 as stated: while the adapter is connected and the DSP loop ticks,
\* consecutive keepalive queries are at most 8 s apart, and while meters
\* are subscribed consecutive meter re-arms are at most 9 s apart.
KeepaliveWithinPeriod ==
    [][/\ KeepaliveSent => lastKeepalive' - lastKeepalive <= KeepaliveX32Ms
       /\ MeterRearmed => lastMeterRenew' - lastMeterRenew <= MeterRenewMs]_vars

\* C23: the session memory never holds more than its cap; once more than
\* the cap have been inserted it holds exactly the cap; and it always holds
\* the most recently inserted entries, in insertion order.
MemoryKeepsNewest ==
    /\ Len(entries) <= MaxEntries
    /\ inserted > MaxEntries => Len(entries) = MaxEntries
    /\ inserted <= MaxEntries => Len(entries) = inserted
    /\ \A j \in 1..Len(entries) :
          entries[j].seq = inserted - Len(entries) + j

\* More entries than the cap have been inserted and the oldest are gone.
MemoryEvictedOldest ==
    /\ inserted > MaxEntries
    /\ Len(entries) = MaxEntries
    /\ entries[1].seq > 1

\* The position of action id in the order in which executions completed.
CompletedAt(id) == CHOOSE k \in 1..Len(writes) : writes[k].call = id

\* C24 as stated: the ActionTaken entries of the session memory are in the
\* order in which their actions completed execution, whichever threads
\* executed them.
RecordedInCompletionOrder ==
    \A i, j \in 1..Len(entries) :
        /\ i < j
        /\ entries[i].type = "ActionTaken"
        /\ entries[j].type = "ActionTaken"
        => CompletedAt(entries[i].id) < CompletedAt(entries[j].id)

\* C25 as stated: every instruction recorded from a chat message is among
\* the engineer_instructions that buildMixContext takes from the session
\* memory, from then on.
InstructionsStand ==
    \A n \in instructed :
        \E k \in 1..Len(activeInstructions(ActiveMax)) :
            activeInstructions(ActiveMax)[k].seq = n

\* C26: with one producer and one consumer running concurrently, a write
\* accepts no more than the free space and returns the count it accepted,
\* a read takes no more than is available and returns the count it took,
\* and the samples read are a prefix of the samples accepted, in order,
\* with none lost, repeated or overwritten, also after the indices wrapped.
RingIsFifo ==
    /\ readOut = [k \in 1..Len(readOut) |-> k]
    /\ Len(readOut) <= writePos
    /\ readPos <= Len(readOut)
    /\ writePos + producer.n - readPos <= RingCapacity
    /\ readPos + consumer.n <= writePos
    /\ producer.ret <= RingCapacity
    /\ consumer.ret <= RingCapacity
    /\ consumer.pc = "idle" => Len(readOut) = readPos

\* The write index has wrapped and a sample written after the wrap has been
\* read.
RingWrappedAndRead ==
    /\ writePos > RingCapacity
    /\ Len(readOut) > RingCapacity
    /\ consumer.pc = "idle"

\* C27 as stated: for every MixAction a, fromJson(a.toJson()) returns an
\* action with the kind, channel, value, value2, value3, band, urgency,
\* reason and role of a.
RoundTripPreserves ==
    roundTrip.done =>
        /\ ~roundTrip.decoded.raised
        /\ roundTrip.decoded.action = roundTrip.original

\* A step in which decideMixActions gets a response that is not valid JSON.
MalformedResponse ==
    /\ engine'.totalCalls = engine.totalCalls + 1
    /\ engine'.response = "malformed"

\* C28 as stated: when the LLM response is malformed JSON, the decision
\* engine returns no actions, counts exactly one failed call, and the LLM
\* loop goes on with its next iteration.
MalformedCountsOneFailure ==
    [][MalformedResponse =>
          /\ engine'.actions = <<>>
          /\ engine'.failedCalls = engine.failedCalls + 1
          /\ pc'["llm"] = "loop"]_vars

IsClipFix(a) ==
    /\ a.type = "SetFader"
    /\ a.urgency = "Immediate"
    /\ a.channel \in 1..ChannelCount
    /\ a.value = (fader[a.channel] * 9) \div 10

DspTickDrainsRing ==
    [][(DspAudioTick /\ capture.state = "running" /\ writePos > readPos)
          => readPos' > readPos]_vars

\* C31: every action held in rejected_ (put there by reject, rejectAll or
\* a DenyAll submit) has been passed to the rejection hook, so the
\* preference learner has recorded a rejection for it.
RejectedReachLearner ==
    \A j \in 1..Len(rejected) : rejected[j].action.id \in learned

\* C32: when the UI handler's approve or reject call changes the queue, the
\* entry it moves is the one its snapshot showed at the selected index.
UiActsOnDisplayed ==
    [][((UiApprove \/ UiReject) /\ pending' # pending)
          => /\ selectedIndex < Len(uiSnap)
             /\ pending[selectedIndex + 1].action.id = uiSnap[selectedIndex + 1]]_vars

\* C33: the fader writes of two executeFader calls on the same channel never
\* interleave: no write of one call lies between two writes of the other.
RampsDoNotInterleave ==
    \A i, j, k \in 1..Len(writes) :
        (i < j /\ j < k /\ writes[i].call = writes[k].call
               /\ writes[i].channel = writes[j].channel)
            => writes[j].call = writes[i].call

\* C34: the target of every executeFader call differs by at most
\* maxFaderDelta from the fader value the call read from the model.
ClampHoldsAtExecution ==
    ramp.call > 0 => Abs(ramp.target - ramp.current) <= maxFaderDeltaNorm

\* The entries of q are fixes for different channels.
OneFixPerChannel(q) ==
    \A i, j \in 1..Len(q) :
        q[i].action.channel = q[j].action.channel => i = j

\* C35: while a channel keeps clipping the DSP loop does not queue its fix
\* again on every tick: pending_ and rejected_ hold at most one clipping
\* fix per channel.
ClipFixQueuedOnce ==
    OneFixPerChannel(pending) /\ OneFixPerChannel(rejected)

\* C36: once the UI has exited and main has destroyed the agent, the meters
\* were unsubscribed, the DSP, LLM and execution threads were joined, and
\* the preferences were persisted.
UiExitStillStops ==
    (uiPc = "done" /\ agentState = "destroyed") =>
        /\ {"unsubscribe", "join", "persist"} \subseteq Range(stopLog)
        /\ \A w \in {"dsp", "llm", "exec"} : pc[w] = "done"

\* C37: while the mode is DenyAll, popApproved hands no action to the
\* execution loop, so none is executed; this covers the actions queued as
\* pending before the switch to DenyAll whose timeout elapses after it.
DenyAllExecutesNothing ==
    mode = "DenyAll" => act["exec"] = NoAction

\* C38: during full sync nothing is raised on the adapter's receive thread,
\* however many Name updates arrive.
SyncRaisesNothing ==
    sync # <<>> => ~sync[1].raised

\* C39: when the review's results are stored in the channel map, a channel
\* reclassified by a live rename since the local pass keeps its profile.
ReviewKeepsRenamed ==
    [][ReviewApply =>
          \A ch \in review[1].renamed : profiles'[ch] = profiles[ch]]_vars

\* C40: the detached review task uses the discovery orchestrator only while
\* the orchestrator exists.
ReviewUsesLiveOrchestrator ==
    [][ReviewApply => review[1].alive]_vars

====================================================================
